---- MODULE Spec2Model ----
(***************************************************************************)
(* Model of the Codex multi-account core of Antigravity-Manager:           *)
(*   - the account store (modules/codex/storage.rs), whose operations are  *)
(*     load-modify-save sequences over accounts.json,                      *)
(*   - the switcher (modules/codex/switcher.rs) writing auth.json,         *)
(*   - the token refresh and the OAuth login flow                          *)
(*     (modules/codex/codex_oauth.rs),                                     *)
(*   - the proxy chat-completions path (proxy/handlers/codex.rs).          *)
(* Option<T> is modelled as a sequence: None == << >>, Some(x) == <<x>>.   *)
(***************************************************************************)
EXTENDS Integers, Sequences, FiniteSets, TLC

\* ------------------------------------------------------------------ bounds
\* Accounts ever constructed (each gets a fresh Uuid).
MaxAccounts == 2
\* Store commands started in one behaviour: when commands interleave, and
\* when they run one at a time.
MaxOps == 3
MaxSeqOps == 4
\* Store commands started beside one proxy call.
MaxProxyOps == 1
\* Calls of start_codex_oauth_login in one behaviour.
MaxFlows == 2
\* Seconds by which the model's clock advances.
TickSecs == 150

\* The threads of the async runtime that run store commands.
Tasks == {"t1", "t2"}

None == << >>
Some(x) == <<x>>
IsSome(o) == Len(o) = 1
Unwrap(o) == o[1]

\* ------------------------------------------------------------ value domains
Names == {"A", "B"}
Emails == {"e1", "e2"}
ApiKeys == {"k1"}

\* An ID token: a dot-separated string. nparts is the number of segments
\* split('.') yields, b64 whether the middle segment decodes as base64url
\* without padding, json whether the decoded bytes parse as JSON, and the
\* rest the claims the JSON document carries.
MkIdToken(n, b, j, e, p, a) ==
    [nparts |-> n, b64 |-> b, json |-> j, email |-> e, plan |-> p, acct |-> a]
JwtE1 == MkIdToken(3, TRUE, TRUE, Some("e1"), Some("plus"), Some("cg1"))
JwtE2 == MkIdToken(3, TRUE, TRUE, Some("e2"), None, Some("cg2"))
JwtNoClaims == MkIdToken(3, TRUE, TRUE, None, None, None)
JwtTwoParts == MkIdToken(2, TRUE, TRUE, Some("e1"), Some("plus"), Some("cg1"))
JwtBadB64 == MkIdToken(3, FALSE, TRUE, Some("e2"), Some("pro"), Some("cg2"))
JwtBadJson == MkIdToken(3, TRUE, FALSE, Some("e1"), Some("pro"), Some("cg1"))
IdTokens == {JwtE1, JwtE2, JwtNoClaims, JwtTwoParts, JwtBadB64, JwtBadJson}

\* parse_id_token_claims of codex_oauth.rs: (email, plan_type, account_id).
parse_id_token_claims(id_token) ==
    IF id_token.nparts # 3 THEN <<None, None, None>>
    ELSE IF ~id_token.b64 THEN <<None, None, None>>
    ELSE IF ~id_token.json THEN <<None, None, None>>
    ELSE <<id_token.email, id_token.plan, id_token.acct>>

\* ------------------------------------------------------------------- types
\* CodexAuthData, a tagged union.
ApiKeyData(k) == [type |-> "api_key", key |-> k]
ChatGPTData(idt, at, rt, acct) ==
    [type |-> "chatgpt", id_token |-> idt, access_token |-> at,
     refresh_token |-> rt, account_id |-> acct]

\* CodexAccount::new_api_key
new_api_key(id, name, api_key) ==
    [id |-> id, name |-> name, email |-> None, plan_type |-> None,
     auth_mode |-> "api_key", auth_data |-> ApiKeyData(api_key),
     last_used_at |-> None]

\* CodexAccount::new_chatgpt
new_chatgpt(id, name, email, plan_type, idt, at, rt, acct) ==
    [id |-> id, name |-> name, email |-> email, plan_type |-> plan_type,
     auth_mode |-> "chatgpt", auth_data |-> ChatGPTData(idt, at, rt, acct),
     last_used_at |-> None]

\* CodexAccountsStore::default
DefaultStore == [version |-> 1, accounts |-> << >>, active_account_id |-> None]

\* CodexAuthJson (auth.json)
MkAuthJson(k, toks, lr) == [openai_api_key |-> k, tokens |-> toks, last_refresh |-> lr]
\* CodexTokenData
MkTokenData(idt, at, rt, acct) ==
    [id_token |-> idt, access_token |-> at, refresh_token |-> rt, account_id |-> acct]

\* --------------------------------------------------------------- variables
VARIABLES
    accountsFile,   \* content of <home>/.antigravity_tools/codex/accounts.json
    authJson,       \* content of <CODEX_HOME>/auth.json, None while absent
    tasks,          \* per thread: the store command it runs and its locals
    nextId,         \* ids handed out so far + 1 (Uuid::new_v4 is fresh)
    opsStarted,     \* commands started; also the logical clock (Utc::now)
    opLimit         \* commands the behaviour may start (fixed by Init)

storeVars == <<accountsFile, authJson, tasks, nextId, opsStarted, opLimit>>

VARIABLES
    px,             \* the proxy chat-completions call being handled
    upstream,       \* the requests it sent to api.openai.com, in order
    refreshCalls    \* its calls of refresh_codex_account_tokens

proxyVars == <<px, upstream, refreshCalls>>

VARIABLES
    flowSlot,        \* OAUTH_FLOW_STATE: None, or the installed flow state
    portBound,       \* a listener socket holds 127.0.0.1:1455
    flows,           \* per call of start_codex_oauth_login: its flow
    nextFlow,        \* the number of the next call
    acceptedBlocking \* the platform: accepted sockets are blocking

oauthVars == <<flowSlot, portBound, flows, nextFlow, acceptedBlocking>>

\* ------------------------------------------------------------ list helpers
HasId(accounts, id) == \E i \in 1..Len(accounts) : accounts[i].id = id
\* iter().find(|a| a.id == id): index of the first match
FindIdx(accounts, id) ==
    CHOOSE i \in 1..Len(accounts) :
        /\ accounts[i].id = id
        /\ \A j \in 1..(i - 1) : accounts[j].id # id
\* retain(|a| a.id != id)
Retain(accounts, id) == SelectSeq(accounts, LAMBDA a : a.id # id)
HasEmail(accounts, email) == \E i \in 1..Len(accounts) : accounts[i].email = email

Now == opsStarted

\* ------------------------------------------------------------ storage.rs
\* load_codex_accounts: the file is read in full
load_codex_accounts == accountsFile

\* add_codex_account: the duplicate-email check on the loaded store
AddRejected_Never(st, account) == FALSE
AddRejected(st, account) ==
    IsSome(account.email) /\ HasEmail(st.accounts, account.email)
\* an add whose account did not get a fresh id
AddApplied_ReusesId(st, account) ==
    [st EXCEPT !.accounts = Append(@, [account EXCEPT !.id = 1])]
AddApplied(st, account) == [st EXCEPT !.accounts = Append(@, account)]

\* remove_codex_account on the loaded store
RemoveClearsActive_Never(st, id) == FALSE
RemoveClearsActive(st, id) == st.active_account_id = Some(id)
RemoveApplied(st, id) ==
    [st EXCEPT !.accounts = Retain(@, id),
               !.active_account_id = IF RemoveClearsActive(st, id) THEN None ELSE @]

\* set_codex_active_account on the loaded store
SetActiveRejected_NoCheck(st, id) == FALSE
SetActiveRejected(st, id) == ~HasId(st.accounts, id)
SetActiveApplied(st, id) == [st EXCEPT !.active_account_id = Some(id)]

\* touch_codex_account on the loaded store
TouchApplied(st, id, now) ==
    [st EXCEPT !.accounts[FindIdx(st.accounts, id)].last_used_at = Some(now)]

\* rename_codex_account on the loaded store
RenameApplied(st, id, new_name) ==
    [st EXCEPT !.accounts[FindIdx(st.accounts, id)].name = new_name]

\* get_codex_active_account
get_codex_active_account_IgnoresId(st) ==
    IF IsSome(st.active_account_id) /\ Len(st.accounts) > 0
    THEN Some(st.accounts[1])
    ELSE None
get_codex_active_account(st) ==
    IF IsSome(st.active_account_id) /\ HasId(st.accounts, Unwrap(st.active_account_id))
    THEN Some(st.accounts[FindIdx(st.accounts, Unwrap(st.active_account_id))])
    ELSE None

\* ------------------------------------------------------------ switcher.rs
\* create_auth_json: the projection of an account into auth.json
create_auth_json_NoAccountId(account, now) ==
    IF account.auth_data.type = "api_key"
    THEN MkAuthJson(Some(account.auth_data.key), None, None)
    ELSE MkAuthJson(None,
                    Some(MkTokenData(account.auth_data.id_token,
                                     account.auth_data.access_token,
                                     account.auth_data.refresh_token,
                                     None)),
                    Some(now))
create_auth_json(account, now) ==
    IF account.auth_data.type = "api_key"
    THEN MkAuthJson(Some(account.auth_data.key), None, None)
    ELSE MkAuthJson(None,
                    Some(MkTokenData(account.auth_data.id_token,
                                     account.auth_data.access_token,
                                     account.auth_data.refresh_token,
                                     account.auth_data.account_id)),
                    Some(now))

\* import_from_codex_auth_json, after the file was read and parsed:
\* Some(account), or None for the rejected file. The api key wins when both
\* fields are present; the switcher's own claim parser yields email and plan
\* only, the chatgpt account id is the file's tokens.account_id.
import_from_codex_auth_json(auth, id, account_name) ==
    IF IsSome(auth.openai_api_key)
    THEN Some(new_api_key(id, account_name, Unwrap(auth.openai_api_key)))
    ELSE IF IsSome(auth.tokens)
    THEN LET tokens == Unwrap(auth.tokens)
             claims == parse_id_token_claims(tokens.id_token)
         IN  Some(new_chatgpt(id, account_name, claims[1], claims[2],
                              tokens.id_token, tokens.access_token,
                              tokens.refresh_token, tokens.account_id))
    ELSE None

\* --------------------------------------------------------- codex_oauth.rs
\* CodexRefreshResult built by refresh_codex_access_token from the issuer's
\* response: claims are parsed from the response's id_token when it has one.
MkRefreshResponse(at, rt, idt) == [access_token |-> at, refresh_token |-> rt, id_token |-> idt]
RefreshResultOf(resp) ==
    LET claims == IF IsSome(resp.id_token)
                  THEN parse_id_token_claims(Unwrap(resp.id_token))
                  ELSE <<None, None, None>>
    IN  [access_token |-> resp.access_token, refresh_token |-> resp.refresh_token,
         id_token |-> resp.id_token, email |-> claims[1], plan_type |-> claims[2],
         chatgpt_account_id |-> claims[3]]

\* refresh_codex_account_tokens: the email written back into the account
RefreshedEmail_Cleared(account, rr) == rr.email
RefreshedEmail(account, rr) == IF IsSome(rr.email) THEN rr.email ELSE account.email

\* a refresh that would store the new access token as an api_key payload
RefreshedAccount_AsApiKey(account, rr) ==
    [account EXCEPT !.auth_data = ApiKeyData(rr.access_token),
                    !.email = RefreshedEmail(account, rr)]
\* refresh_codex_account_tokens: the account rewritten from a refresh result
RefreshedAccount(account, rr) ==
    [account EXCEPT
        !.auth_data = [@ EXCEPT
            !.access_token = rr.access_token,
            !.refresh_token = IF IsSome(rr.refresh_token) THEN Unwrap(rr.refresh_token) ELSE @,
            !.id_token = IF IsSome(rr.id_token) THEN Unwrap(rr.id_token) ELSE @,
            !.account_id = IF IsSome(rr.chatgpt_account_id) THEN rr.chatgpt_account_id ELSE @],
        !.email = RefreshedEmail(account, rr),
        !.plan_type = IF IsSome(rr.plan_type) THEN rr.plan_type ELSE @]
\* a refresh that would re-read the file and merge its result into it
RefreshApplied_OntoCurrent(st, id, rr) ==
    IF HasId(accountsFile.accounts, id)
    THEN [accountsFile EXCEPT !.accounts[FindIdx(accountsFile.accounts, id)] = RefreshedAccount(@, rr)]
    ELSE accountsFile
RefreshApplied(st, id, rr) ==
    [st EXCEPT !.accounts[FindIdx(st.accounts, id)] = RefreshedAccount(@, rr)]

\* ------------------------------------------------------------ commands
\* add_codex_account (command): label.trim(), and a generated name when the
\* label is absent or blank
Trim(str) ==
    CASE str = " A " -> "A"
      [] str = " B " -> "B"
      [] str = "  " -> ""
      [] OTHER -> str
NameOfLabel(label) ==
    IF IsSome(label) /\ Trim(Unwrap(label)) # "" THEN Trim(Unwrap(label)) ELSE "Codex-ts"

\* ---------------------------------------------------------------- inputs
Labels == {None, Some(" A ")}
ImportFiles ==
    { MkAuthJson(Some("k1"), None, None),
      MkAuthJson(None, Some(MkTokenData(JwtE1, "at0", "rt0", Some("cg1"))), Some(0)),
      MkAuthJson(None, Some(MkTokenData(JwtBadB64, "at0", "rt0", None)), None),
      MkAuthJson(None, None, None) }
RefreshResponses ==
    { MkRefreshResponse("at1", None, None),
      MkRefreshResponse("at1", Some("rt1"), Some(JwtE1)),
      MkRefreshResponse("at1", None, Some(JwtE2)) }
AccountIds == 1..MaxAccounts
\* the new_name arguments of rename_codex_account_cmd
RenameNames == {"B", " B "}

\* ------------------------------------------------------------ task records
IdleTask ==
    [pc |-> "idle", op |-> "none", id |-> 0, name |-> "", acct |-> None,
     snap |-> DefaultStore, result |-> "none"]
\* a command that has returned: its locals are dropped, its result is kept
\* until the caller takes it
Returned(op, id, res) == [IdleTask EXCEPT !.pc = "done", !.op = op, !.id = id, !.result = res]
Running(pc, op, id, name, acct, st) ==
    [pc |-> pc, op |-> op, id |-> id, name |-> name, acct |-> acct,
     snap |-> st, result |-> "none"]

CanBegin(t) == tasks[t].pc = "idle" /\ opsStarted < opLimit
Begun == opsStarted' = opsStarted + 1 /\ UNCHANGED opLimit

\* ------------------------------------------------- add (storage.rs 58-76)
\* load and duplicate-email check of add_codex_account
AddLoad(t, op, account) ==
    LET st == load_codex_accounts
    IN  tasks' = [tasks EXCEPT ![t] =
            IF AddRejected(st, account)
            THEN Returned(op, account.id, "err")
            ELSE Running("add_save", op, account.id, account.name, Some(account), st)]

\* command add_codex_account(label, api_key)
add_codex_account_cmd(t, label, api_key) ==
    /\ CanBegin(t) /\ Begun
    /\ nextId <= MaxAccounts
    /\ nextId' = nextId + 1
    /\ AddLoad(t, "add", new_api_key(nextId, NameOfLabel(label), api_key))
    /\ UNCHANGED <<accountsFile, authJson>>

\* command add_codex_account_from_file(path, name)
add_codex_account_from_file(t, auth, name) ==
    /\ CanBegin(t) /\ Begun
    /\ nextId <= MaxAccounts
    /\ LET imported == import_from_codex_auth_json(auth, nextId, name)
       IN  IF IsSome(imported)
           THEN /\ nextId' = nextId + 1
                /\ AddLoad(t, "import", Unwrap(imported))
           ELSE /\ tasks' = [tasks EXCEPT ![t] = Returned("import", 0, "err")]
                /\ UNCHANGED nextId
    /\ UNCHANGED <<accountsFile, authJson>>

\* push and save_codex_accounts of add_codex_account
add_codex_account_save(t) ==
    /\ tasks[t].pc = "add_save"
    /\ accountsFile' = AddApplied(tasks[t].snap, Unwrap(tasks[t].acct))
    /\ tasks' = [tasks EXCEPT ![t] = Returned(tasks[t].op, tasks[t].id, "ok")]
    /\ UNCHANGED <<authJson, nextId, opsStarted, opLimit>>

\* ---------------------------------------------- remove (storage.rs 79-97)
remove_codex_account_load(t, id) ==
    /\ CanBegin(t) /\ Begun
    /\ LET st == load_codex_accounts
       IN  tasks' = [tasks EXCEPT ![t] =
               IF ~HasId(st.accounts, id)
               THEN Returned("remove", id, "err")
               ELSE Running("remove_save", "remove", id, "", None, st)]
    /\ UNCHANGED <<accountsFile, authJson, nextId>>

remove_codex_account_save(t) ==
    /\ tasks[t].pc = "remove_save"
    /\ accountsFile' = RemoveApplied(tasks[t].snap, tasks[t].id)
    /\ tasks' = [tasks EXCEPT ![t] = Returned("remove", tasks[t].id, "ok")]
    /\ UNCHANGED <<authJson, nextId, opsStarted, opLimit>>

\* --------------------------------------------- rename (storage.rs 138-148)
rename_codex_account_load(t, id, new_name) ==
    /\ CanBegin(t) /\ Begun
    /\ LET st == load_codex_accounts
       IN  tasks' = [tasks EXCEPT ![t] =
               IF ~HasId(st.accounts, id)
               THEN Returned("rename", id, "err")
               ELSE Running("rename_save", "rename", id, new_name, None, st)]
    /\ UNCHANGED <<accountsFile, authJson, nextId>>

rename_codex_account_save(t) ==
    /\ tasks[t].pc = "rename_save"
    /\ accountsFile' = RenameApplied(tasks[t].snap, tasks[t].id, tasks[t].name)
    /\ tasks' = [tasks EXCEPT ![t] = Returned("rename", tasks[t].id, "ok")]
    /\ UNCHANGED <<authJson, nextId, opsStarted, opLimit>>

\* ------------------------------------ activate (storage.rs 100-112)
SetActiveLoadStep(t, op, id) ==
    LET st == load_codex_accounts
    IN  tasks' = [tasks EXCEPT ![t] =
            IF SetActiveRejected(st, id)
            THEN Returned(op, id, "err")
            ELSE Running("setactive_save", op, id, "", None, st)]

set_codex_active_account_load(t, id) ==
    /\ CanBegin(t) /\ Begun
    /\ SetActiveLoadStep(t, "activate", id)
    /\ UNCHANGED <<accountsFile, authJson, nextId>>

\* the save of set_codex_active_account; inside switch_codex_account the
\* command goes on to touch_codex_account
set_codex_active_account_save(t) ==
    /\ tasks[t].pc = "setactive_save"
    /\ accountsFile' = SetActiveApplied(tasks[t].snap, tasks[t].id)
    /\ tasks' = [tasks EXCEPT ![t] =
            IF tasks[t].op = "switch"
            THEN Running("switch_touch", "switch", tasks[t].id, "", None, DefaultStore)
            ELSE Returned(tasks[t].op, tasks[t].id, "ok")]
    /\ UNCHANGED <<authJson, nextId, opsStarted, opLimit>>

\* ------------------------------------ touch (storage.rs 126-135)
TouchLoadStep(t, op, id) ==
    LET st == load_codex_accounts
    IN  tasks' = [tasks EXCEPT ![t] =
            IF HasId(st.accounts, id)
            THEN Running("touch_save", op, id, "", None, st)
            ELSE Returned(op, id, "ok")]

touch_codex_account_load(t, id) ==
    /\ CanBegin(t) /\ Begun
    /\ TouchLoadStep(t, "touch", id)
    /\ UNCHANGED <<accountsFile, authJson, nextId>>

touch_codex_account_save(t) ==
    /\ tasks[t].pc = "touch_save"
    /\ accountsFile' = TouchApplied(tasks[t].snap, tasks[t].id, Now)
    /\ tasks' = [tasks EXCEPT ![t] = Returned(tasks[t].op, tasks[t].id, "ok")]
    /\ UNCHANGED <<authJson, nextId, opsStarted, opLimit>>

\* ------------------------------------ switch (commands/codex.rs 77-97)
\* load_codex_accounts and find
switch_codex_account_load(t, id) ==
    /\ CanBegin(t) /\ Begun
    /\ LET st == load_codex_accounts
       IN  tasks' = [tasks EXCEPT ![t] =
               IF ~HasId(st.accounts, id)
               THEN Returned("switch", id, "err")
               ELSE Running("switch_write", "switch", id, "",
                            Some(st.accounts[FindIdx(st.accounts, id)]), st)]
    /\ UNCHANGED <<accountsFile, authJson, nextId>>

\* switch_to_codex_account: auth.json is written from the account found
switch_to_codex_account(t) ==
    /\ tasks[t].pc = "switch_write"
    /\ authJson' = Some(create_auth_json(Unwrap(tasks[t].acct), Now))
    /\ tasks' = [tasks EXCEPT ![t] =
            Running("switch_setactive", "switch", tasks[t].id, "", None, DefaultStore)]
    /\ UNCHANGED <<accountsFile, nextId, opsStarted, opLimit>>

\* set_codex_active_account called by switch_codex_account
switch_set_active_load(t) ==
    /\ tasks[t].pc = "switch_setactive"
    /\ SetActiveLoadStep(t, "switch", tasks[t].id)
    /\ UNCHANGED <<accountsFile, authJson, nextId, opsStarted, opLimit>>

\* touch_codex_account called by switch_codex_account
switch_touch_load(t) ==
    /\ tasks[t].pc = "switch_touch"
    /\ TouchLoadStep(t, "switch", tasks[t].id)
    /\ UNCHANGED <<accountsFile, authJson, nextId, opsStarted, opLimit>>

\* ------------------------------------ refresh (codex_oauth.rs 201-249)
\* load, find, and the payload match; the request to the issuer is in flight
\* when this returns
RefreshRejected_OnlyMissing(st, id) == ~HasId(st.accounts, id)
RefreshRejected(st, id) ==
    \/ ~HasId(st.accounts, id)
    \/ st.accounts[FindIdx(st.accounts, id)].auth_data.type = "api_key"

refresh_codex_account_tokens_load(t, id) ==
    /\ CanBegin(t) /\ Begun
    /\ LET st == load_codex_accounts
       IN  tasks' = [tasks EXCEPT ![t] =
               IF RefreshRejected(st, id)
               THEN Returned("refresh", id, "err")
               ELSE Running("refresh_await", "refresh", id, "", None, st)]
    /\ UNCHANGED <<accountsFile, authJson, nextId>>

\* the issuer answered: the loaded store is rewritten and saved
refresh_codex_account_tokens_save(t, resp) ==
    /\ tasks[t].pc = "refresh_await"
    /\ accountsFile' = RefreshApplied(tasks[t].snap, tasks[t].id, RefreshResultOf(resp))
    \* Ok((account.clone(), refresh_result)): acct holds the returned pair
    /\ tasks' = [tasks EXCEPT ![t] =
          [Returned("refresh", tasks[t].id, "ok") EXCEPT !.acct =
              <<RefreshedAccount(tasks[t].snap.accounts[FindIdx(tasks[t].snap.accounts, tasks[t].id)],
                                 RefreshResultOf(resp)),
                RefreshResultOf(resp)>>]]
    /\ UNCHANGED <<authJson, nextId, opsStarted, opLimit>>

\* the issuer refused or the request failed: nothing is written
refresh_codex_account_tokens_fail(t) ==
    /\ tasks[t].pc = "refresh_await"
    /\ tasks' = [tasks EXCEPT ![t] = Returned("refresh", tasks[t].id, "err")]
    /\ UNCHANGED <<accountsFile, authJson, nextId, opsStarted, opLimit>>

\* the caller takes the command's result
Return(t) ==
    /\ tasks[t].pc = "done"
    /\ tasks' = [tasks EXCEPT ![t] = IdleTask]
    /\ UNCHANGED <<accountsFile, authJson, nextId, opsStarted, opLimit>>

\* ------------------------------------------------ proxy/handlers/codex.rs
\* HTTP statuses the upstream answers with
Statuses == {200, 401, 402, 403, 500}
IsSuccess(status) == status \in 200..299

\* should_refresh_codex_token
should_refresh_codex_token_Only401(status, refresh_token) ==
    /\ status \in {401}
    /\ IF IsSome(refresh_token) THEN Unwrap(refresh_token) # "" ELSE FALSE
should_refresh_codex_token(status, refresh_token) ==
    /\ status \in {401, 403}
    /\ IF IsSome(refresh_token) THEN Unwrap(refresh_token) # "" ELSE FALSE

\* extract_codex_auth: (access_token, refresh_token, chatgpt_account_id)
extract_codex_auth(account) ==
    IF account.auth_data.type = "chatgpt"
    THEN <<account.auth_data.access_token, Some(account.auth_data.refresh_token),
           account.auth_data.account_id>>
    ELSE <<account.auth_data.key, None, None>>

\* send_codex_request: the Authorization bearer and the chatgpt-account-id
\* header of one request
MkRequest(access_token, chatgpt_account_id) ==
    [bearer |-> access_token, chatgpt_account_id |-> chatgpt_account_id]

\* the credentials of the retry: access_token = refresh_result.access_token,
\* chatgpt_account_id = extract_codex_auth(&updated).2
RetryCredentials_Stale(old_token, old_cg, updated, rr) == <<old_token, old_cg>>
RetryCredentials(old_token, old_cg, updated, rr) ==
    <<rr.access_token, extract_codex_auth(updated)[3]>>

\* what follows the retry's response: it is returned as it is
AfterRetry_RefreshAgain(status, refresh_token) ==
    IF should_refresh_codex_token(status, refresh_token) THEN "refresh_load" ELSE "done"
AfterRetry(status, refresh_token) == "done"

\* ret is the variant of the Result the handler returns: Ok(response) with
\* the upstream response's status, or Err((status, message))
IdleProxy ==
    [pc |-> "idle", stream |-> FALSE, hdr |-> None, account |-> None,
     access_token |-> "", refresh_token |-> None, chatgpt_account_id |-> None,
     snap |-> DefaultStore, first |-> 0, refreshed |-> None, status |-> 0,
     x_codex_account |-> None, ret |-> "none"]

\* handle_codex_chat is entered with a body whose stream flag is `stream`
handle_codex_chat(stream) ==
    /\ px.pc = "idle"
    /\ px' = [px EXCEPT !.pc = "outer_active", !.stream = stream]
    /\ UNCHANGED <<storeVars, upstream, refreshCalls>>

\* the account is resolved: by handle_codex_chat ("outer") and, when the
\* request does not stream, once more by call_codex_chat_api ("inner"); the
\* credentials sent upstream are those of the last resolution
Resolved(phase, account) ==
    IF phase = "outer" /\ ~px.stream
    THEN [px EXCEPT !.pc = "inner_active", !.hdr = Some(account)]
    ELSE LET auth == extract_codex_auth(account)
         IN  [px EXCEPT !.pc = "send1",
                        !.hdr = IF phase = "outer" THEN Some(account) ELSE @,
                        !.account = Some(account),
                        !.access_token = auth[1],
                        !.refresh_token = auth[2],
                        !.chatgpt_account_id = auth[3]]

\* get_active_codex_account, first load: storage::get_codex_active_account
proxy_get_active(phase) ==
    /\ px.pc = IF phase = "outer" THEN "outer_active" ELSE "inner_active"
    /\ LET active == get_codex_active_account(load_codex_accounts)
       IN  px' = IF IsSome(active)
                 THEN Resolved(phase, Unwrap(active))
                 ELSE [px EXCEPT !.pc = IF phase = "outer" THEN "outer_first"
                                        ELSE "inner_first"]
    /\ UNCHANGED <<storeVars, upstream, refreshCalls>>

\* store.accounts[0]
FirstAccount_Last(st) == st.accounts[Len(st.accounts)]
FirstAccount(st) == st.accounts[1]

\* get_active_codex_account, second load: the first account, or 503
proxy_get_first(phase) ==
    /\ px.pc = IF phase = "outer" THEN "outer_first" ELSE "inner_first"
    /\ LET st == load_codex_accounts
       IN  px' = IF Len(st.accounts) = 0
                 THEN [px EXCEPT !.pc = "done", !.status = 503, !.ret = "Err"]
                 ELSE Resolved(phase, FirstAccount(st))
    /\ UNCHANGED <<storeVars, upstream, refreshCalls>>

\* the first request is sent and answered with `status`
proxy_send_first(status) ==
    /\ px.pc = "send1"
    /\ upstream' = Append(upstream, MkRequest(px.access_token, px.chatgpt_account_id))
    /\ px' = IF should_refresh_codex_token(status, px.refresh_token)
             THEN [px EXCEPT !.pc = "refresh_load", !.first = status, !.status = status]
             ELSE [px EXCEPT !.pc = "done", !.first = status, !.status = status,
                             !.ret = "Ok",
                             !.x_codex_account =
                                IF px.stream /\ ~IsSuccess(status) THEN None
                                ELSE Some(Unwrap(IF px.stream THEN px.account ELSE px.hdr).id)]
    /\ UNCHANGED <<storeVars, refreshCalls>>

\* a request that cannot be sent: 502 Bad Gateway
proxy_send_fails ==
    /\ px.pc \in {"send1", "send2"}
    /\ upstream' = Append(upstream, MkRequest(px.access_token, px.chatgpt_account_id))
    /\ px' = [px EXCEPT !.pc = "done", !.status = 502, !.ret = "Err"]
    /\ UNCHANGED <<storeVars, refreshCalls>>

\* the response of the call when no retry is sent: the first response
FirstResponseReturned_Retry == [px EXCEPT !.pc = "send2"]
FirstResponseReturned ==
    [px EXCEPT !.pc = "done", !.ret = "Ok",
               !.x_codex_account =
                    IF px.stream /\ ~IsSuccess(px.first) THEN None
                    ELSE Some(Unwrap(IF px.stream THEN px.account ELSE px.hdr).id)]

\* refresh_codex_account_tokens(&account.id) is called: load, find, match
proxy_refresh_load ==
    /\ px.pc = "refresh_load"
    /\ refreshCalls' = refreshCalls + 1
    /\ LET st == load_codex_accounts
       IN  px' = IF RefreshRejected(st, Unwrap(px.account).id)
                 THEN FirstResponseReturned
                 ELSE [px EXCEPT !.pc = "refresh_await", !.snap = st]
    /\ UNCHANGED <<storeVars, upstream>>

\* the issuer answered the refresh: the store is saved, the call goes on
\* with the updated account
proxy_refresh_ok(resp) ==
    /\ px.pc = "refresh_await"
    /\ LET rr == RefreshResultOf(resp)
           id == Unwrap(px.account).id
           st == RefreshApplied(px.snap, id, rr)
           updated == st.accounts[FindIdx(st.accounts, id)]
           cred == RetryCredentials(px.access_token, px.chatgpt_account_id, updated, rr)
       IN  /\ accountsFile' = st
           /\ px' = [px EXCEPT !.pc = "send2", !.account = Some(updated),
                               !.access_token = cred[1],
                               !.chatgpt_account_id = cred[2],
                               !.refreshed = Some(<<rr.access_token, updated>>),
                               !.snap = DefaultStore]
    /\ UNCHANGED <<authJson, tasks, nextId, opsStarted, opLimit, upstream, refreshCalls>>

\* the refresh failed: the first response is what the call returns
proxy_refresh_fail ==
    /\ px.pc = "refresh_await"
    /\ px' = [FirstResponseReturned EXCEPT !.snap = DefaultStore]
    /\ UNCHANGED <<storeVars, upstream, refreshCalls>>

\* the retry is sent and answered with `status`
proxy_send_second(status) ==
    /\ px.pc = "send2"
    /\ upstream' = Append(upstream, MkRequest(px.access_token, px.chatgpt_account_id))
    /\ px' = [px EXCEPT !.pc = AfterRetry(status, px.refresh_token),
                        !.status = status, !.ret = "Ok",
                        !.x_codex_account =
                            IF px.stream /\ ~IsSuccess(status) THEN None
                            ELSE Some(Unwrap(IF px.stream THEN px.account ELSE px.hdr).id)]
    /\ UNCHANGED <<storeVars, refreshCalls>>

ProxyStep ==
    \/ \E stream \in BOOLEAN : handle_codex_chat(stream)
    \/ \E phase \in {"outer", "inner"} : proxy_get_active(phase)
    \/ \E phase \in {"outer", "inner"} : proxy_get_first(phase)
    \/ \E status \in Statuses : proxy_send_first(status)
    \/ proxy_send_fails
    \/ proxy_refresh_load
    \/ \E resp \in RefreshResponses : proxy_refresh_ok(resp)
    \/ proxy_refresh_fail
    \/ \E status \in Statuses : proxy_send_second(status)

\* --------------------------------------------- codex_oauth.rs, OAuth login
\* let timeout = Duration::from_secs(300)
TimeoutSecs == 300
FlowIds == 1..MaxFlows
\* generate_state draws the state nonce at random
OAuthStates == {"s1", "s2"}

\* The query of a request line: error (present or not), state and code.
CallbackParams ==
    [error : BOOLEAN, state : {None} \cup {Some(x) : x \in OAuthStates},
     code : {None, Some(""), Some("c")}]
NoParams == [error |-> FALSE, state |-> None, code |-> None]
\* request paths: the callback path, a path that only contains the callback
\* path, and another path
Paths == {"/auth/callback", "/x/auth/callback", "/favicon.ico"}
\* path_line.contains("/auth/callback")
PathContainsCallback(path) == path \in {"/auth/callback", "/x/auth/callback"}

\* the request path begins with the callback path
PathBeginsWithCallback(path) == path = "/auth/callback"

\* A connection the listener accepted: one that has sent a request, one
\* that has sent nothing yet, one whose read fails.
NoConn == [kind |-> "none", path |-> "", params |-> NoParams]
RequestConn(path, params) == [kind |-> "request", path |-> path, params |-> params]
SilentConn == [kind |-> "silent", path |-> "", params |-> NoParams]
ResetConn == [kind |-> "reset", path |-> "", params |-> NoParams]
Connections ==
    {RequestConn("/auth/callback", p) : p \in CallbackParams}
        \cup {RequestConn("/x/auth/callback", p) : p \in
                {[error |-> FALSE, state |-> Some(x), code |-> Some("c")] : x \in OAuthStates}}
        \cup {RequestConn("/favicon.ico", NoParams), SilentConn, ResetConn}

NoFlow ==
    [started |-> "none", inFlight |-> FALSE, state |-> "", lpc |-> "none",
     elapsed |-> 0, conn |-> NoConn, cb |-> None, result |-> "none",
     responded |-> FALSE, sends |-> 0, exchanged |-> FALSE, inserted |-> FALSE,
     storeBefore |-> DefaultStore, rx |-> "none"]

ListenerAlive(f) == flows[f].lpc \notin {"none", "terminated"}

\* TcpListener::bind("127.0.0.1:1455") fails while the port is held
BindFails_Never == FALSE
BindFails == portBound

\* start_codex_oauth_login: bind, install the flow state (dropping the one
\* installed before, and with it its sender), spawn the listener thread
start_codex_oauth_login(f, st) ==
    /\ nextFlow = f
    /\ nextFlow' = f + 1
    /\ IF BindFails
       THEN /\ flows' = [flows EXCEPT ![f] =
                    [NoFlow EXCEPT !.started = "err",
                                   !.inFlight = \E g \in FlowIds : ListenerAlive(g)]]
            /\ UNCHANGED <<flowSlot, portBound>>
       ELSE /\ portBound' = TRUE
            /\ flowSlot' = Some([flow |-> f, state |-> st])
            /\ flows' = [g \in FlowIds |->
                    IF g = f
                    THEN [NoFlow EXCEPT !.started = "ok",
                                        !.inFlight = \E h \in FlowIds : ListenerAlive(h),
                                        !.state = st, !.lpc = "loop", !.rx = "waiting"]
                    ELSE IF IsSome(flowSlot) /\ Unwrap(flowSlot).flow = g
                              /\ flows[g].rx = "waiting"
                    THEN [flows[g] EXCEPT !.rx = "cancelled"]
                    ELSE flows[g]]
    /\ UNCHANGED <<storeVars, proxyVars, acceptedBlocking>>

\* send_oauth_result: take whatever state is installed and send the result
\* through its sender; a send to a dropped receiver fails silently
SlotAfterSend == None
\* send_oauth_result, `let _ = tx.send(result)`: the Err of a send whose
\* receiver is gone is discarded and the listener goes on to return
LpcAfterSend_Unwrap(f) == IF flows[f].rx = "dropped" THEN "panicked" ELSE "exit"
LpcAfterSend(f) == "exit"
FlowsAfterSend(f, result) ==
    [g \in FlowIds |->
        LET mine == IF g = f THEN [flows[g] EXCEPT !.sends = @ + 1, !.lpc = LpcAfterSend(f)]
                    ELSE flows[g]
        IN  IF IsSome(flowSlot) /\ Unwrap(flowSlot).flow = g /\ flows[g].rx = "waiting"
            THEN [mine EXCEPT !.rx = result]
            ELSE mine]

\* run_oauth_server, top of the loop: start.elapsed() > timeout
TimedOut(f) == flows[f].elapsed > TimeoutSecs

listener_timeout(f) ==
    /\ flows[f].lpc = "loop"
    /\ TimedOut(f)
    /\ flowSlot' = SlotAfterSend
    /\ flows' = FlowsAfterSend(f, "err:timeout")
    /\ UNCHANGED <<storeVars, proxyVars, portBound, nextFlow, acceptedBlocking>>

\* listener.accept() returns a connection
listener_accept(f, c) ==
    /\ flows[f].lpc = "loop"
    /\ ~TimedOut(f)
    /\ flows' = [flows EXCEPT ![f].lpc = "read", ![f].conn = c]
    /\ UNCHANGED <<storeVars, proxyVars, flowSlot, portBound, nextFlow, acceptedBlocking>>

\* stream.read returned a request: a request line that contains the
\* callback path is handled as a callback, any other gets 404 Not Found
listener_read_request(f) ==
    /\ flows[f].lpc = "read"
    /\ flows[f].conn.kind = "request"
    /\ flows' = [flows EXCEPT ![f] =
            IF PathContainsCallback(flows[f].conn.path)
            THEN [@ EXCEPT !.lpc = "handle", !.cb = Some(flows[f].conn.params),
                           !.storeBefore = accountsFile]
            ELSE [@ EXCEPT !.lpc = "loop", !.conn = NoConn]]
    /\ UNCHANGED <<storeVars, proxyVars, flowSlot, portBound, nextFlow, acceptedBlocking>>

\* stream.read returned an error (`continue`): the peer reset the
\* connection, or the accepted socket is non-blocking and nothing was sent
listener_read_error(f) ==
    /\ flows[f].lpc = "read"
    /\ \/ flows[f].conn.kind = "reset"
       \/ flows[f].conn.kind = "silent" /\ ~acceptedBlocking
    /\ flows' = [flows EXCEPT ![f].lpc = "loop", ![f].conn = NoConn]
    /\ UNCHANGED <<storeVars, proxyVars, flowSlot, portBound, nextFlow, acceptedBlocking>>

\* the peer of a connection the listener is blocked reading sends a request
peer_sends(f, path, params) ==
    /\ flows[f].lpc = "read"
    /\ flows[f].conn.kind = "silent"
    /\ acceptedBlocking
    /\ flows' = [flows EXCEPT ![f].conn = RequestConn(path, params)]
    /\ UNCHANGED <<storeVars, proxyVars, flowSlot, portBound, nextFlow, acceptedBlocking>>

\* the peer closes it: read returns 0 bytes, the request line of the
\* zeroed buffer does not contain the callback path, 404 is written
peer_closes(f) ==
    /\ flows[f].lpc = "read"
    /\ flows[f].conn.kind = "silent"
    /\ acceptedBlocking
    /\ flows' = [flows EXCEPT ![f].lpc = "loop", ![f].conn = NoConn]
    /\ UNCHANGED <<storeVars, proxyVars, flowSlot, portBound, nextFlow, acceptedBlocking>>

\* handle_callback up to the token exchange: the error parameter, then the
\* state (byte equality with the flow's own), then the code
StateMismatch_Never(params, expected_state) == FALSE
StateMismatch(params, expected_state) == params.state # Some(expected_state)

CallbackRejection(params, expected_state) ==
    IF params.error THEN "err:oauth"
    ELSE IF StateMismatch(params, expected_state) THEN "err:state"
    ELSE IF ~IsSome(params.code) \/ Unwrap(params.code) = "" THEN "err:code"
    ELSE "none"

\* where run_oauth_server goes once handle_callback has returned: it writes
\* the 200 response, and only then calls send_oauth_result
AfterHandleCallback_SendFirst == "send"
AfterHandleCallback == "respond"

handle_callback(f) ==
    /\ flows[f].lpc = "handle"
    /\ LET rej == CallbackRejection(Unwrap(flows[f].cb), flows[f].state)
       IN  flows' = [flows EXCEPT ![f] =
                IF rej # "none"
                THEN [@ EXCEPT !.lpc = AfterHandleCallback, !.result = rej]
                ELSE [@ EXCEPT !.lpc = "exchange", !.exchanged = TRUE]]
    /\ UNCHANGED <<storeVars, proxyVars, flowSlot, portBound, nextFlow, acceptedBlocking>>

\* exchange_code_for_tokens fails
exchange_fail(f) ==
    /\ flows[f].lpc = "exchange"
    /\ flows' = [flows EXCEPT ![f].lpc = AfterHandleCallback, ![f].result = "err:exchange"]
    /\ UNCHANGED <<storeVars, proxyVars, flowSlot, portBound, nextFlow, acceptedBlocking>>

\* the id tokens the issuer answers with
ExchangeIdTokens == {JwtE1, JwtBadB64}

\* handle_callback, `storage::add_codex_account(account.clone())?`: the Err
\* of the add is the callback's result, Ok(account) follows only its Ok
ResultOfAdd_AlwaysOk(rejected) == "ok"
ResultOfAdd(rejected) == IF rejected THEN "err:add" ELSE "ok"

\* exchange_code_for_tokens succeeds: the claims are parsed, the account is
\* built and added to the store
exchange_ok(f, id_token) ==
    /\ flows[f].lpc = "exchange"
    /\ nextId <= MaxAccounts
    /\ LET claims == parse_id_token_claims(id_token)
           account == new_chatgpt(nextId, "oauth", claims[1], claims[2],
                                  id_token, "at0", "rt0", claims[3])
           store == load_codex_accounts
       IN  IF AddRejected(store, account)
           THEN /\ flows' = [flows EXCEPT ![f].lpc = AfterHandleCallback,
                                          ![f].result = ResultOfAdd(TRUE)]
                /\ UNCHANGED accountsFile
           ELSE /\ flows' = [flows EXCEPT ![f].lpc = AfterHandleCallback,
                                          ![f].result = ResultOfAdd(FALSE),
                                          ![f].inserted = TRUE]
                /\ accountsFile' = AddApplied(store, account)
    /\ nextId' = nextId + 1
    /\ UNCHANGED <<authJson, tasks, opsStarted, opLimit, proxyVars,
                   flowSlot, portBound, nextFlow, acceptedBlocking>>

\* the 200 response (success or error page) is written to the connection
listener_respond(f) ==
    /\ flows[f].lpc = "respond"
    /\ flows' = [flows EXCEPT ![f].responded = TRUE, ![f].lpc = "send"]
    /\ UNCHANGED <<storeVars, proxyVars, flowSlot, portBound, nextFlow, acceptedBlocking>>

\* send_oauth_result(result); break
listener_send(f) ==
    /\ flows[f].lpc = "send"
    /\ flowSlot' = SlotAfterSend
    /\ flows' = FlowsAfterSend(f, flows[f].result)
    /\ UNCHANGED <<storeVars, proxyVars, portBound, nextFlow, acceptedBlocking>>

\* run_oauth_server returns: its locals are gone and the listener socket
\* is closed; what the caller holds (the receiver) stays
listener_exit(f) ==
    /\ flows[f].lpc = "exit"
    /\ flows' = [flows EXCEPT ![f] =
            [NoFlow EXCEPT !.started = flows[f].started, !.inFlight = flows[f].inFlight,
                           !.lpc = "terminated", !.rx = flows[f].rx,
                           !.responded = flows[f].responded, !.sends = flows[f].sends]]
    /\ portBound' = FALSE
    /\ UNCHANGED <<storeVars, proxyVars, flowSlot, nextFlow, acceptedBlocking>>

\* time passes for a running listener (start.elapsed() grows)
Tick(f) ==
    /\ ListenerAlive(f)
    /\ ~TimedOut(f)
    /\ flows' = [flows EXCEPT ![f].elapsed = @ + TickSecs]
    /\ UNCHANGED <<storeVars, proxyVars, flowSlot, portBound, nextFlow, acceptedBlocking>>

\* the caller gives up waiting: the receiver is dropped
drop_receiver(f) ==
    /\ flows[f].rx = "waiting"
    /\ flows' = [flows EXCEPT ![f].rx = "dropped"]
    /\ UNCHANGED <<storeVars, proxyVars, flowSlot, portBound, nextFlow, acceptedBlocking>>

ListenerStep(f) ==
    \/ listener_timeout(f)
    \/ \E c \in Connections : listener_accept(f, c)
    \/ listener_read_request(f)
    \/ listener_read_error(f)
    \/ handle_callback(f)
    \/ exchange_fail(f)
    \/ \E t \in ExchangeIdTokens : exchange_ok(f, t)
    \/ listener_respond(f)
    \/ listener_send(f)
    \/ listener_exit(f)

\* the steps the listener thread takes by itself, whatever its peers do
ListenerOwnStep(f) ==
    \/ listener_timeout(f)
    \/ listener_read_request(f)
    \/ listener_read_error(f)
    \/ handle_callback(f)
    \/ exchange_fail(f)
    \/ \E t \in ExchangeIdTokens : exchange_ok(f, t)
    \/ listener_respond(f)
    \/ listener_send(f)
    \/ listener_exit(f)

PeerStep(f) ==
    \/ \E p \in CallbackParams : peer_sends(f, "/auth/callback", p)
    \/ peer_sends(f, "/favicon.ico", NoParams)
    \/ peer_closes(f)

OAuthIdleInit ==
    /\ flowSlot = None
    /\ portBound = FALSE
    /\ flows = [f \in FlowIds |-> NoFlow]
    /\ nextFlow = 1

\* ---------------------------------------------------- proxy/pm_router.rs
ROUTER_ALLOWED_MODELS ==
    { "gpt-5.2-codex", "gpt-5.1-codex-max", "gpt-5.1-codex-mini",
      "claude-sonnet-4-5", "claude-sonnet-4-5-thinking", "claude-opus-4-5-thinking",
      "gemini-2.5-pro", "gemini-2.5-flash", "gemini-2.5-flash-thinking",
      "gemini-2.5-flash-lite", "gemini-3-flash", "gemini-3-pro-high",
      "gemini-3-pro-low", "gemini-3-pro-image" }

\* is_codex_model (proxy::common::model_mapping): the id is one of the three
\* recognized Codex ids, or lowercased begins with gpt-5 and contains codex,
\* or begins with codex
is_codex_model(model) ==
    model \in {"gpt-5.2-codex", "gpt-5.1-codex-max", "gpt-5.1-codex-mini", "codex-foo"}

\* str::trim on the model ids the planners answer with
TrimModel(selected) ==
    CASE selected = " gemini-2.5-pro " -> "gemini-2.5-pro"
      [] OTHER -> selected

\* validate_router_model
validate_router_model_NoCheck(selected, config) == TrimModel(selected)
validate_router_model(selected, config) ==
    IF TrimModel(selected) \in ROUTER_ALLOWED_MODELS
    THEN TrimModel(selected)
    ELSE config.fallback_model

\* Text as a sequence of characters; char::to_lowercase on each of them.
LowerChar(c) ==
    CASE c = "A" -> "a"
      [] c = "B" -> "b"
      [] OTHER -> c
to_lowercase(str) == [i \in 1..Len(str) |-> LowerChar(str[i])]
\* str::contains
contains(str, pat) ==
    \E i \in 0..(Len(str) - Len(pat)) : SubSeq(str, i + 1, i + Len(pat)) = pat

\* should_escalate_to_pro
should_escalate_to_pro_CaseSensitive(config, context) ==
    IF Len(config.pro_keywords) = 0 THEN FALSE
    ELSE \E k \in 1..Len(config.pro_keywords) : contains(context, config.pro_keywords[k])
should_escalate_to_pro(config, context) ==
    IF Len(config.pro_keywords) = 0 THEN FALSE
    ELSE \E k \in 1..Len(config.pro_keywords) :
            contains(to_lowercase(context), to_lowercase(config.pro_keywords[k]))

\* call_router_with_fallback: the fallback is called unless it is the model
\* that has just failed
FallbackIsTried_Never(primary_model, fallback_model) == FALSE
FallbackIsTried_Always(primary_model, fallback_model) == TRUE
FallbackIsTried(primary_model, fallback_model) == primary_model # fallback_model

\* parse_router_response: Ok exactly when the text between the first `{` and
\* the last `}` is a JSON document with a selected_model
parse_router_response(response) ==
    IF response.json THEN Some(response) ELSE None

\* a pro response is adopted only if it parses
ProAdopted_Always(response) == TRUE
ProAdopted(response) == IsSome(parse_router_response(response))

\* the final coercion of select_model_for_claude_request
CoerceForClaude_Never(selected, config) == selected
CoerceForClaude(selected, config) ==
    IF is_codex_model(selected) THEN config.fallback_model ELSE selected

\* ------------------------------------------------------------------ inputs
LiteModels == {"gpt-5.2-codex", "gemini-2.5-flash"}
ProModels == {"claude-opus-4-5-thinking", "gemini-2.5-flash"}
FallbackModels == {"gemini-2.5-flash", "gpt-5.2-codex", "my-fallback"}
KeywordLists == { << >>, << <<"a", "B">> >>, << <<"b", "b">>, << >> >> }
Contexts == { << >>, <<"A", "b">>, <<"b", "a">> }
RouterConfigs ==
    [pm_lite_model : LiteModels, pm_pro_model : ProModels,
     fallback_model : FallbackModels, pro_keywords : KeywordLists]
SelectedModels ==
    {"claude-sonnet-4-5", " gemini-2.5-pro ", "gpt-5.2-codex", "gpt-4o", "codex-foo"}
\* what a planner answers: text that parses (with its fields) or does not
MkResponse(json, selected_model, needs_pro, reason, task_type) ==
    [json |-> json, selected_model |-> selected_model, needs_pro |-> needs_pro,
     reason |-> reason, task_type |-> task_type]
NoResponse == MkResponse(FALSE, "", FALSE, "", "")
RouterResponses ==
    {NoResponse}
        \cup {MkResponse(TRUE, m, n, "r1", "coding") : m \in SelectedModels, n \in BOOLEAN}
        \cup {MkResponse(TRUE, "claude-sonnet-4-5", FALSE, "r2", "docs")}
\* the errors of call_router_model
RouterErrors == {"token unavailable", "upstream error"}

NoConfig ==
    [pm_lite_model |-> "", pm_pro_model |-> "", fallback_model |-> "",
     pro_keywords |-> << >>]
NoDecision ==
    [selected_model |-> "", reason |-> "", task_type |-> "",
     used_router_model |-> "", used_pro |-> FALSE]

VARIABLES
    rt,           \* select_model_for_claude_request: its locals and result
    plannerCalls  \* the calls of call_router_model made so far

routerVars == <<rt, plannerCalls>>

IdleRouter ==
    [pc |-> "idle", config |-> NoConfig, context |-> << >>,
     lite_error |-> "", lite |-> NoResponse, used_lite_model |-> "",
     pro |-> None, pro_model_used |-> "", result |-> "none", decision |-> NoDecision]

build_router_prompt(context) == <<"prompt", context>>
MkCall(stage, model, prompt) == [stage |-> stage, model |-> model, prompt |-> prompt]

\* select_model_for_claude_request is entered: the context and the prompt
\* are built and the lite planner is called
select_model_for_claude_request(config, context) ==
    /\ rt.pc = "idle"
    /\ rt' = [IdleRouter EXCEPT !.pc = "lite_primary", !.config = config,
                                !.context = context]
    /\ plannerCalls' = <<MkCall("lite", config.pm_lite_model, build_router_prompt(context))>>

\* the decision once no planner call is left
Finish(r, selected, used_router_model, used_pro) ==
    [r EXCEPT !.pc = "done", !.result = "ok",
              !.decision = [selected_model |-> CoerceForClaude(selected, r.config),
                            reason |-> r.lite.reason,
                            task_type |-> r.lite.task_type,
                            used_router_model |-> used_router_model,
                            used_pro |-> used_pro]]

\* the lite stage has its response: parse, validate, decide on escalation
AfterLite(response, model_used) ==
    IF ~IsSome(parse_router_response(response))
    THEN /\ rt' = [rt EXCEPT !.pc = "done", !.result = "err", !.lite = response,
                             !.used_lite_model = model_used]
         /\ UNCHANGED plannerCalls
    ELSE LET r == [rt EXCEPT !.lite = response, !.used_lite_model = model_used]
             selected == validate_router_model(response.selected_model, rt.config)
         IN  IF response.needs_pro \/ should_escalate_to_pro(rt.config, rt.context)
             THEN /\ rt' = [r EXCEPT !.pc = "pro_primary"]
                  /\ plannerCalls' = Append(plannerCalls,
                        MkCall("pro", rt.config.pm_pro_model, build_router_prompt(rt.context)))
             ELSE /\ rt' = Finish(r, selected, model_used, FALSE)
                  /\ UNCHANGED plannerCalls

\* the pro stage is over: with a response (adopted if it parses) or without
AfterPro(response, model_used) ==
    LET lite_selected == validate_router_model(rt.lite.selected_model, rt.config)
        r == [rt EXCEPT !.pro = response, !.pro_model_used = model_used]
    IN  /\ rt' = IF IsSome(response) /\ ProAdopted(Unwrap(response))
                 THEN Finish(r, validate_router_model(Unwrap(response).selected_model,
                                                      rt.config),
                             model_used, TRUE)
                 ELSE Finish(r, lite_selected, rt.used_lite_model, FALSE)
        /\ UNCHANGED plannerCalls

\* call_router_model answers
planner_ok(response) ==
    \/ /\ rt.pc = "lite_primary"
       /\ AfterLite(response, rt.config.pm_lite_model)
    \/ /\ rt.pc = "lite_fallback"
       /\ AfterLite(response, rt.config.fallback_model)
    \/ /\ rt.pc = "pro_primary"
       /\ AfterPro(Some(response), rt.config.pm_pro_model)
    \/ /\ rt.pc = "pro_fallback"
       /\ AfterPro(Some(response), rt.config.fallback_model)

\* call_router_model fails
planner_err(err) ==
    \/ /\ rt.pc = "lite_primary"
       /\ IF FallbackIsTried(rt.config.pm_lite_model, rt.config.fallback_model)
          THEN /\ rt' = [rt EXCEPT !.pc = "lite_fallback", !.lite_error = err]
               /\ plannerCalls' = Append(plannerCalls,
                    MkCall("lite", rt.config.fallback_model, build_router_prompt(rt.context)))
          ELSE /\ rt' = [rt EXCEPT !.pc = "done", !.result = "err", !.lite_error = err]
               /\ UNCHANGED plannerCalls
    \/ /\ rt.pc = "lite_fallback"
       /\ rt' = [rt EXCEPT !.pc = "done", !.result = "err"]
       /\ UNCHANGED plannerCalls
    \/ /\ rt.pc = "pro_primary"
       /\ IF FallbackIsTried(rt.config.pm_pro_model, rt.config.fallback_model)
          THEN /\ rt' = [rt EXCEPT !.pc = "pro_fallback"]
               /\ plannerCalls' = Append(plannerCalls,
                    MkCall("pro", rt.config.fallback_model, build_router_prompt(rt.context)))
          ELSE AfterPro(None, "")
    \/ /\ rt.pc = "pro_fallback"
       /\ AfterPro(None, "")

RouterIdleInit ==
    /\ rt = IdleRouter
    /\ plannerCalls = << >>

RouterStep ==
    \/ \E config \in RouterConfigs, context \in Contexts :
            select_model_for_claude_request(config, context)
    \/ \E response \in RouterResponses : planner_ok(response)
    \/ \E err \in RouterErrors : planner_err(err)

\* ------------------------------------------- accounts.json as bytes on disk
\* (storage.rs 33-55).  accountsFile is the document the file holds while
\* its bytes are a complete document; fileBytes tells what the bytes are.
MaxFileOps == 3

VARIABLES
    fileBytes       \* "absent", "complete", "empty", "partial" or "garbage"

fileVars == <<fileBytes>>

FileStates == {"absent", "complete", "empty", "partial", "garbage"}

\* load_codex_accounts on the bytes: no file is the default store, a file
\* that serde_json::from_str rejects is an error (None)
ReadAccountsFile_Lenient ==
    IF fileBytes = "complete" THEN Some(accountsFile) ELSE Some(DefaultStore)
ReadAccountsFile ==
    IF fileBytes = "absent" THEN Some(DefaultStore)
    ELSE IF fileBytes = "complete" THEN Some(accountsFile)
    ELSE None

\* the load and the in-memory change of a mutating storage function; the
\* changed store is kept in the task until save_codex_accounts writes it
FileMutation(t, op, id, rejected, applied) ==
    /\ CanBegin(t)
    /\ Begun
    /\ tasks' = [tasks EXCEPT ![t] =
          IF ~IsSome(ReadAccountsFile) \/ rejected
          THEN Returned(op, id, "err")
          ELSE Running("save_serialize", op, id, "", None, applied)]
    /\ UNCHANGED <<accountsFile, fileBytes, authJson>>

file_add_codex_account(t) ==
    /\ nextId <= MaxAccounts
    /\ \E account \in {new_api_key(nextId, "A", "k1"),
                        new_chatgpt(nextId, "A", None, None, JwtNoClaims, "at0", "rt0", None)} :
          LET st == IF IsSome(ReadAccountsFile) THEN Unwrap(ReadAccountsFile) ELSE DefaultStore
          IN  FileMutation(t, "add", nextId, AddRejected(st, account), AddApplied(st, account))
    /\ nextId' = nextId + 1

file_remove_codex_account(t, id) ==
    /\ LET st == IF IsSome(ReadAccountsFile) THEN Unwrap(ReadAccountsFile) ELSE DefaultStore
       IN  FileMutation(t, "remove", id, ~HasId(st.accounts, id), RemoveApplied(st, id))
    /\ UNCHANGED nextId

file_set_codex_active_account(t, id) ==
    /\ LET st == IF IsSome(ReadAccountsFile) THEN Unwrap(ReadAccountsFile) ELSE DefaultStore
       IN  FileMutation(t, "set_active", id, SetActiveRejected(st, id), SetActiveApplied(st, id))
    /\ UNCHANGED nextId

\* list_codex_accounts: a load alone
file_list_codex_accounts(t) ==
    /\ CanBegin(t)
    /\ Begun
    /\ tasks' = [tasks EXCEPT ![t] =
          Returned("list", 0, IF IsSome(ReadAccountsFile) THEN "ok" ELSE "err")]
    /\ UNCHANGED <<accountsFile, fileBytes, authJson, nextId>>

\* get_codex_active_account: a load alone
file_get_codex_active_account(t) ==
    /\ CanBegin(t)
    /\ Begun
    /\ tasks' = [tasks EXCEPT ![t] =
          Returned("get_active", 0, IF IsSome(ReadAccountsFile) THEN "ok" ELSE "err")]
    /\ UNCHANGED <<accountsFile, fileBytes, authJson, nextId>>

\* touch_codex_account: Ok without a save when the id is not in the store
file_touch_codex_account(t, id) ==
    /\ CanBegin(t)
    /\ Begun
    /\ tasks' = [tasks EXCEPT ![t] =
          IF ~IsSome(ReadAccountsFile) THEN Returned("touch", id, "err")
          ELSE IF ~HasId(Unwrap(ReadAccountsFile).accounts, id) THEN Returned("touch", id, "ok")
          ELSE Running("save_serialize", "touch", id, "", None,
                       TouchApplied(Unwrap(ReadAccountsFile), id, Now))]
    /\ UNCHANGED <<accountsFile, fileBytes, authJson, nextId>>

file_rename_codex_account(t, id, new_name) ==
    /\ LET st == IF IsSome(ReadAccountsFile) THEN Unwrap(ReadAccountsFile) ELSE DefaultStore
       IN  FileMutation(t, "rename", id, ~HasId(st.accounts, id), RenameApplied(st, id, new_name))
    /\ UNCHANGED nextId

\* refresh_codex_account_tokens: the load, the find and the payload match
file_refresh_codex_account_tokens_load(t, id) ==
    /\ CanBegin(t)
    /\ Begun
    /\ tasks' = [tasks EXCEPT ![t] =
          IF ~IsSome(ReadAccountsFile) THEN Returned("refresh", id, "err")
          ELSE IF RefreshRejected(Unwrap(ReadAccountsFile), id) THEN Returned("refresh", id, "err")
          ELSE Running("refresh_await", "refresh", id, "", None, Unwrap(ReadAccountsFile))]
    /\ UNCHANGED <<accountsFile, fileBytes, authJson, nextId>>

\* the issuer answered: the loaded store is rewritten and handed to the save
file_refresh_codex_account_tokens_apply(t, resp) ==
    /\ tasks[t].pc = "refresh_await"
    /\ tasks' = [tasks EXCEPT ![t] =
          Running("save_serialize", "refresh", tasks[t].id, "", None,
                  RefreshApplied(tasks[t].snap, tasks[t].id, RefreshResultOf(resp)))]
    /\ UNCHANGED <<accountsFile, fileBytes, authJson, nextId, opsStarted, opLimit>>

\* save_codex_accounts, line 49-50: to_string_pretty fails
save_serialize_fail(t) ==
    /\ tasks[t].pc = "save_serialize"
    /\ tasks' = [tasks EXCEPT ![t] = Returned(tasks[t].op, tasks[t].id, "err")]
    /\ UNCHANGED <<accountsFile, fileBytes, authJson, nextId, opsStarted, opLimit>>

\* save_codex_accounts, line 52: fs::write cannot open the file
save_open_fail(t) ==
    /\ tasks[t].pc = "save_serialize"
    /\ tasks' = [tasks EXCEPT ![t] = Returned(tasks[t].op, tasks[t].id, "err")]
    /\ UNCHANGED <<accountsFile, fileBytes, authJson, nextId, opsStarted, opLimit>>

\* what opening the destination does to its bytes: fs::write opens the file
\* itself with create + truncate
BytesAfterOpen_TempFile == fileBytes
BytesAfterOpen == "empty"

\* save_codex_accounts, line 52: fs::write opens accounts.json
save_open(t) ==
    /\ tasks[t].pc = "save_serialize"
    /\ fileBytes' = BytesAfterOpen
    /\ tasks' = [tasks EXCEPT ![t].pc = "save_write"]
    /\ UNCHANGED <<accountsFile, authJson, nextId, opsStarted, opLimit>>

\* fs::write writes the whole document and closes the file
save_write_ok(t) ==
    /\ tasks[t].pc = "save_write"
    /\ accountsFile' = tasks[t].snap
    /\ fileBytes' = "complete"
    /\ tasks' = [tasks EXCEPT ![t] = Returned(tasks[t].op, tasks[t].id, "ok")]
    /\ UNCHANGED <<authJson, nextId, opsStarted, opLimit>>

\* write_all fails after none or some of the bytes (disk full, I/O error)
save_write_fail(t) ==
    /\ tasks[t].pc = "save_write"
    /\ \E b \in {"empty", "partial"} :
          fileBytes' = (IF BytesAfterOpen = "empty" THEN b ELSE fileBytes)
    /\ tasks' = [tasks EXCEPT ![t] = Returned(tasks[t].op, tasks[t].id, "err")]
    /\ UNCHANGED <<accountsFile, authJson, nextId, opsStarted, opLimit>>

FileTaskStep(t) ==
    \/ file_add_codex_account(t)
    \/ \E id \in AccountIds : file_remove_codex_account(t, id)
    \/ \E id \in AccountIds : file_set_codex_active_account(t, id)
    \/ file_list_codex_accounts(t)
    \/ file_get_codex_active_account(t)
    \/ \E id \in AccountIds : file_touch_codex_account(t, id)
    \/ \E id \in AccountIds : file_rename_codex_account(t, id, "B")
    \/ \E id \in AccountIds : file_refresh_codex_account_tokens_load(t, id)
    \/ \E resp \in RefreshResponses : file_refresh_codex_account_tokens_apply(t, resp)
    \/ refresh_codex_account_tokens_fail(t) /\ UNCHANGED fileBytes
    \/ save_serialize_fail(t)
    \/ save_open_fail(t)
    \/ save_open(t)
    \/ save_write_ok(t)
    \/ save_write_fail(t)
    \/ Return(t) /\ UNCHANGED fileBytes

\* --------------------------------- import and projection (switcher.rs 59-113)
VARIABLES
    imp             \* one credential file, the account imported from it and
                    \* that account's projection

importVars == <<imp>>

\* the credential files handed to import: every combination of an absent
\* or present OPENAI_API_KEY, absent or present tokens, and last_refresh
CredentialKeys == {None, Some("k1"), Some("k2")}
CredentialTokens ==
    {None} \cup
    { Some(MkTokenData(idt, access, refresh, acct)) :
        idt \in {JwtE1, JwtBadB64}, access \in {"at0", "at1"},
        refresh \in {"rt0", "rt1"}, acct \in {None, Some("cg1")} }
CredentialFiles ==
    { MkAuthJson(k, toks, lr) :
        k \in CredentialKeys, toks \in CredentialTokens, lr \in {None, Some(0)} }
\* Utc::now() at the projection
ProjectionTimes == {1, 2}

NoImport ==
    [pc |-> "idle", file |-> MkAuthJson(None, None, None), account |-> None,
     projected |-> None]

\* import_from_codex_auth_json on the parsed file
import_file ==
    /\ imp.pc = "file"
    /\ LET imported == import_from_codex_auth_json(imp.file, 1, "A")
       IN  imp' = IF IsSome(imported)
                  THEN [imp EXCEPT !.pc = "imported", !.account = imported]
                  ELSE [imp EXCEPT !.pc = "rejected"]

\* create_auth_json on the imported account
project_account ==
    /\ imp.pc = "imported"
    /\ \E now \in ProjectionTimes :
          imp' = [imp EXCEPT !.pc = "projected",
                             !.projected = Some(create_auth_json(Unwrap(imp.account), now))]

\* ------------------------------------------------------- store specification
StoreInitWith(limit) ==
    /\ opLimit = limit
    /\ accountsFile = DefaultStore
    /\ authJson = None
    /\ tasks = [t \in Tasks |-> IdleTask]
    /\ nextId = 1
    /\ opsStarted = 0

ProxyIdleInit ==
    /\ px = IdleProxy
    /\ upstream = << >>
    /\ refreshCalls = 0

TaskStep(t) ==
    \/ \E label \in Labels, k \in ApiKeys : add_codex_account_cmd(t, label, k)
    \/ \E auth \in ImportFiles : add_codex_account_from_file(t, auth, "A")
    \/ add_codex_account_save(t)
    \/ \E id \in AccountIds : remove_codex_account_load(t, id)
    \/ remove_codex_account_save(t)
    \/ \E id \in AccountIds, n \in RenameNames : rename_codex_account_load(t, id, n)
    \/ rename_codex_account_save(t)
    \/ \E id \in AccountIds : set_codex_active_account_load(t, id)
    \/ set_codex_active_account_save(t)
    \/ \E id \in AccountIds : touch_codex_account_load(t, id)
    \/ touch_codex_account_save(t)
    \/ \E id \in AccountIds : switch_codex_account_load(t, id)
    \/ switch_to_codex_account(t)
    \/ switch_set_active_load(t)
    \/ switch_touch_load(t)
    \/ \E id \in AccountIds : refresh_codex_account_tokens_load(t, id)
    \/ \E resp \in RefreshResponses : refresh_codex_account_tokens_save(t, resp)
    \/ refresh_codex_account_tokens_fail(t)
    \/ Return(t)

\* the accounts file of the other specifications is always a whole document
FileIdleInit == fileBytes = "complete" /\ imp = NoImport

OAuthIdle == OAuthIdleInit /\ acceptedBlocking = TRUE /\ RouterIdleInit /\ FileIdleInit

StoreInit == StoreInitWith(MaxOps) /\ ProxyIdleInit /\ OAuthIdle
SeqInit == StoreInitWith(MaxSeqOps) /\ ProxyIdleInit /\ OAuthIdle

vars == <<storeVars, proxyVars, oauthVars, routerVars, fileVars, importVars>>

\* commands interleave at every load and save
Next == (\E t \in Tasks : TaskStep(t)) /\ UNCHANGED <<proxyVars, oauthVars, routerVars, fileVars, importVars>>
Spec == StoreInit /\ [][Next]_vars

\* one command at a time (the store's single-writer discipline)
SeqNext ==
    /\ \E t \in Tasks : (\A u \in Tasks \ {t} : tasks[u].pc = "idle") /\ TaskStep(t)
    /\ UNCHANGED <<proxyVars, oauthVars, routerVars, fileVars, importVars>>
SpecSeq == SeqInit /\ [][SeqNext]_vars

\* ------------------------------------------------------- proxy specification
\* The stores a proxy call may find: accounts as add and import create
\* them, the active pointer unset, naming one of them, or naming an id that
\* is not in the list.
ProxyApiKeyAccount(id) == new_api_key(id, "A", "k1")
ProxyChatGPTAccount(id) ==
    Unwrap(import_from_codex_auth_json(
        MkAuthJson(None, Some(MkTokenData(JwtE1, "at0", "rt0", Some("cg1"))), None),
        id, "A"))
ProxyNoRefreshTokenAccount(id) ==
    Unwrap(import_from_codex_auth_json(
        MkAuthJson(None, Some(MkTokenData(JwtBadB64, "at0", "", None)), None),
        id, "A"))
ProxyAccountLists ==
    { << >>,
      <<ProxyApiKeyAccount(1)>>,
      <<ProxyChatGPTAccount(1)>>,
      <<ProxyNoRefreshTokenAccount(1)>>,
      <<ProxyApiKeyAccount(1), ProxyChatGPTAccount(2)>>,
      <<ProxyChatGPTAccount(1), ProxyApiKeyAccount(2)>> }

ProxyInit ==
    /\ \E accounts \in ProxyAccountLists :
         /\ \E active \in {None} \cup {Some(i) : i \in AccountIds} :
              /\ accountsFile = [version |-> 1, accounts |-> accounts,
                                 active_account_id |-> active]
              /\ authJson = IF IsSome(active) /\ Unwrap(active) <= Len(accounts)
                            THEN Some(create_auth_json(accounts[Unwrap(active)], 0))
                            ELSE None
         /\ nextId = Len(accounts) + 1
    /\ tasks = [t \in Tasks |-> IdleTask]
    /\ opsStarted = 0
    /\ opLimit = MaxProxyOps
    /\ ProxyIdleInit
    /\ OAuthIdle

\* the store commands that run, one at a time, beside a proxy call
ProxyTaskStep(t) ==
    \/ \E id \in AccountIds : remove_codex_account_load(t, id)
    \/ remove_codex_account_save(t)
    \/ \E id \in AccountIds : switch_codex_account_load(t, id)
    \/ switch_to_codex_account(t)
    \/ switch_set_active_load(t)
    \/ set_codex_active_account_save(t)
    \/ switch_touch_load(t)
    \/ touch_codex_account_save(t)
    \/ Return(t)

ProxyNext ==
    \/ ProxyStep /\ UNCHANGED <<oauthVars, routerVars, fileVars, importVars>>
    \/ /\ \E t \in Tasks :
              (\A u \in Tasks \ {t} : tasks[u].pc = "idle") /\ ProxyTaskStep(t)
       /\ UNCHANGED <<proxyVars, oauthVars, routerVars, fileVars, importVars>>
SpecProxy == ProxyInit /\ [][ProxyNext]_vars


\* ------------------------------------------------- OAuth login specification
OAuthInit ==
    /\ StoreInitWith(0)
    /\ ProxyIdleInit
    /\ OAuthIdleInit
    /\ acceptedBlocking \in BOOLEAN
    /\ RouterIdleInit
    /\ FileIdleInit

OAuthNext ==
    /\ \E f \in FlowIds :
        \/ \E st \in OAuthStates : start_codex_oauth_login(f, st)
        \/ ListenerStep(f)
        \/ PeerStep(f)
        \/ Tick(f)
        \/ drop_receiver(f)
    /\ UNCHANGED <<routerVars, fileVars, importVars>>
SpecOAuth == OAuthInit /\ [][OAuthNext]_vars

\* The listener thread keeps running and time keeps passing; nothing is
\* assumed of the peers that connect.
SpecOAuthFair ==
    /\ OAuthInit
    /\ [][OAuthNext]_vars
    /\ \A f \in FlowIds :
            /\ WF_vars(ListenerOwnStep(f) /\ UNCHANGED <<routerVars, fileVars, importVars>>)
            /\ WF_vars(Tick(f) /\ UNCHANGED <<routerVars, fileVars, importVars>>)

\* ------------------------------------------------------ router specification
RouterInit ==
    /\ StoreInitWith(0)
    /\ ProxyIdleInit
    /\ OAuthIdleInit
    /\ acceptedBlocking = TRUE
    /\ RouterIdleInit
    /\ FileIdleInit

RouterNext == RouterStep /\ UNCHANGED <<storeVars, proxyVars, oauthVars, fileVars, importVars>>
SpecRouter == RouterInit /\ [][RouterNext]_vars

\* ------------------------------------------------- file specification
\* storage functions beside each other on the bytes of accounts.json; the
\* file is absent at first, or holds bytes that are not a store document
FileInit ==
    /\ StoreInitWith(MaxFileOps)
    /\ fileBytes \in {"absent", "garbage"}
    /\ imp = NoImport
    /\ ProxyIdleInit
    /\ OAuthIdleInit
    /\ acceptedBlocking = TRUE
    /\ RouterIdleInit

FileNext ==
    /\ \E t \in Tasks : FileTaskStep(t)
    /\ UNCHANGED <<proxyVars, oauthVars, routerVars, importVars>>

SpecFile == FileInit /\ [][FileNext]_vars

\* ------------------------------------------------- import specification
\* one credential file is imported and the imported account projected
ImportInit ==
    /\ StoreInitWith(0)
    /\ ProxyIdleInit
    /\ OAuthIdleInit
    /\ acceptedBlocking = TRUE
    /\ RouterIdleInit
    /\ fileBytes = "complete"
    /\ \E f \in CredentialFiles :
          imp = [NoImport EXCEPT !.pc = "file", !.file = f]

ImportNext ==
    /\ \/ import_file
       \/ project_account
    /\ UNCHANGED <<storeVars, proxyVars, oauthVars, routerVars, fileVars>>

SpecImport == ImportInit /\ [][ImportNext]_vars

\* ================================================================== claims
StoredAccount(id) == accountsFile.accounts[FindIdx(accountsFile.accounts, id)]
ReturnedOk(t, op) == tasks[t].pc = "done" /\ tasks[t].op = op /\ tasks[t].result = "ok"

\* C1: in every state of the store reachable from the empty store under any
\* interleaving of the loads and saves of add, remove, activate, rename,
\* touch, switch and token refresh, the active account id is absent or is
\* the id of an account of the store.
C1_ActiveRefersToAccount ==
    \/ accountsFile.active_account_id = None
    \/ HasId(accountsFile.accounts, Unwrap(accountsFile.active_account_id))

\* C1 witness: a remove of account id returned success, and a concurrent
\* activate that had loaded the store before wrote it back afterwards: the
\* pointer names id and id is in the store again.
C1_Witness ==
    /\ IsSome(accountsFile.active_account_id)
    /\ HasId(accountsFile.accounts, Unwrap(accountsFile.active_account_id))
    /\ \E t \in Tasks :
        /\ ReturnedOk(t, "remove")
        /\ tasks[t].id = Unwrap(accountsFile.active_account_id)

\* C2 (as claimed): no two accounts of the store carry the same present
\* email.
C2_EmailsUnique ==
    \A i, j \in 1..Len(accountsFile.accounts) :
        (i # j /\ IsSome(accountsFile.accounts[i].email))
            => accountsFile.accounts[i].email # accountsFile.accounts[j].email

\* C3: with commands run one at a time, the write of remove(id) deletes the
\* account and, in that same write, clears the active pointer when it named
\* id and leaves it as it was otherwise.
C3_RemoveClearsActiveInSameWrite ==
    [][\A t \in Tasks :
        (tasks[t].pc = "remove_save" /\ tasks'[t].pc = "done")
            => /\ HasId(accountsFile.accounts, tasks[t].id)
               /\ ~HasId(accountsFile'.accounts, tasks[t].id)
               /\ accountsFile'.active_account_id =
                    IF accountsFile.active_account_id = Some(tasks[t].id)
                    THEN None
                    ELSE accountsFile.active_account_id]_vars

\* C3 witness: a remove returned success after a switch had written
\* auth.json for the removed account, and the pointer is absent.
C3_Witness ==
    /\ accountsFile.active_account_id = None
    /\ IsSome(authJson)
    /\ \E t \in Tasks : ReturnedOk(t, "remove")

\* auth.json holds exactly the credentials of the account: the key alone for
\* an api_key account, the four token fields alone for a chatgpt account
\* (last_refresh, a timestamp, is not compared)
HoldsProjectionOf(file, account) ==
    /\ IsSome(file)
    /\ IF account.auth_mode = "api_key"
       THEN /\ Unwrap(file).openai_api_key = Some(account.auth_data.key)
            /\ Unwrap(file).tokens = None
       ELSE /\ Unwrap(file).openai_api_key = None
            /\ IsSome(Unwrap(file).tokens)
            /\ Unwrap(Unwrap(file).tokens).id_token = account.auth_data.id_token
            /\ Unwrap(Unwrap(file).tokens).access_token = account.auth_data.access_token
            /\ Unwrap(Unwrap(file).tokens).refresh_token = account.auth_data.refresh_token
            /\ Unwrap(Unwrap(file).tokens).account_id = account.auth_data.account_id

\* C4: with commands run one at a time, when switch_account(id) has
\* returned success, auth.json holds the projection of the stored account id
\* and the active pointer equals id.
C4_SwitchProjectsAndActivates ==
    \A t \in Tasks :
        ReturnedOk(t, "switch")
            => /\ HasId(accountsFile.accounts, tasks[t].id)
               /\ HoldsProjectionOf(authJson, StoredAccount(tasks[t].id))
               /\ accountsFile.active_account_id = Some(tasks[t].id)

\* C4 witness: switch returned success for a chatgpt account that carries a
\* chatgpt account id.
C4_Witness ==
    \E t \in Tasks :
        /\ ReturnedOk(t, "switch")
        /\ HasId(accountsFile.accounts, tasks[t].id)
        /\ StoredAccount(tasks[t].id).auth_data.type = "chatgpt"
        /\ IsSome(StoredAccount(tasks[t].id).auth_data.account_id)


\* the proxy call resolved a chatgpt account with a non-empty refresh token
ProxyHasRefreshToken ==
    /\ IsSome(px.account)
    /\ Unwrap(px.account).auth_mode = "chatgpt"
    /\ IsSome(px.refresh_token)
    /\ Unwrap(px.refresh_token) # ""

\* C5: one proxy chat-completions call (streaming or not) calls the token
\* refresh at most once and sends at most two upstream requests; a second
\* request exists only after a successful refresh, carries the access token
\* of the refresh response and the chatgpt-account-id of the refreshed
\* account, and once it is sent the call is over (its response is returned).
C5_OneRefreshOneRetry ==
    /\ refreshCalls <= 1
    /\ Len(upstream) <= 2
    /\ Len(upstream) = 2 =>
        /\ refreshCalls = 1
        /\ IsSome(px.refreshed)
        /\ upstream[2].bearer = Unwrap(px.refreshed)[1]
        /\ upstream[2].chatgpt_account_id = Unwrap(px.refreshed)[2].auth_data.account_id
        /\ px.pc = "done"

\* C5 witness: a streaming call whose retry was answered 401 again has
\* returned that 401 after two requests, the second with the new token.
C5_Witness ==
    /\ px.pc = "done"
    /\ px.stream
    /\ Len(upstream) = 2
    /\ px.first = 401
    /\ px.status = 401
    /\ upstream[1].bearer = "at0"
    /\ upstream[2].bearer = "at1"

\* C6 (as claimed): a refresh is attempted whenever the first upstream
\* response is 401, 402 or 403 and the resolved account is a chatgpt
\* account with a non-empty refresh token.
C6_RefreshOn401_402_403 ==
    (px.first \in {401, 402, 403} /\ ProxyHasRefreshToken)
        => (px.pc = "refresh_load" \/ refreshCalls >= 1)

\* C6 (amended): a refresh is attempted whenever the first upstream response
\* is 401 or 403 and the resolved account is a chatgpt account with a
\* non-empty refresh token; after a 402 no refresh is attempted.
C6_RefreshOn401_403 ==
    /\ (px.first \in {401, 403} /\ ProxyHasRefreshToken)
            => (px.pc = "refresh_load" \/ refreshCalls >= 1)
    /\ px.first = 402 => (refreshCalls = 0 /\ px.pc = "done")

\* C6 witness: the first response was 403 and the refresh was called.
C6_Witness ==
    /\ px.first = 403
    /\ ProxyHasRefreshToken
    /\ refreshCalls = 1

\* C7: a call of start_codex_oauth_login made while an earlier flow's
\* listener has not terminated succeeds and installs its own flow state
\* (the earlier flow's sender being dropped with the state it replaces).
C7_SecondStartReplaces ==
    \A f \in FlowIds :
        flows[f].inFlight =>
            /\ flows[f].started = "ok"
            /\ \A g \in FlowIds : g < f => flows[g].rx # "waiting"

\* the callback a flow handled passes handle_callback's three checks
ValidCallback(f) ==
    LET p == Unwrap(flows[f].cb)
    IN  /\ ~p.error
        /\ p.state = Some(flows[f].state)
        /\ IsSome(p.code)
        /\ Unwrap(p.code) # ""

CallbackReturned(f) == flows[f].lpc \in {"respond", "send", "exit", "terminated"}

\* C8: a callback leads to a token exchange, and to an insertion into the
\* store, only if it has no error parameter, its state equals the flow's
\* state and its code is non-empty; any other callback makes no token
\* exchange, leaves the store as it was and results in an error.
C8_CallbackChecksBeforeExchange ==
    \A f \in FlowIds :
        IsSome(flows[f].cb) =>
            /\ flows[f].exchanged => ValidCallback(f)
            /\ flows[f].inserted => flows[f].exchanged
            /\ ~ValidCallback(f) =>
                /\ ~flows[f].exchanged
                /\ ~flows[f].inserted
                /\ ListenerAlive(f) => accountsFile = flows[f].storeBefore
                /\ CallbackReturned(f) => flows[f].result \notin {"none", "ok"}
                /\ flows[f].rx # "ok"

C8_Witness ==
    \E f, g \in FlowIds :
        /\ IsSome(flows[f].cb) /\ ValidCallback(f)
        /\ flows[f].inserted /\ flows[f].rx = "ok"
        /\ Len(accountsFile.accounts) = 1
        /\ flows[g].lpc = "terminated" /\ flows[g].rx = "err:state"

\* C9: if no callback request ever arrives, the listener, whatever other
\* connections it accepts, eventually sends the timeout error and
\* terminates.
C9_TimeoutEventually ==
    \A f \in FlowIds :
        (flows[f].lpc = "loop") ~> (flows[f].lpc = "terminated" \/ IsSome(flows[f].cb))

\* C10: for a request handled as a callback the 200 response is written
\* before the result is sent, the send empties the installed flow state and
\* happens once, the listener terminates only after it, and after the send
\* the listener accepts nothing and sends nothing more.
C10_RespondSendTerminate ==
    [][\A f \in FlowIds :
        /\ IsSome(flows[f].cb) =>
            /\ flows'[f].sends # flows[f].sends =>
                /\ flows[f].responded
                /\ flows[f].sends = 0
                /\ flows'[f].sends = 1
                /\ flowSlot' = None
            /\ (flows'[f].lpc = "terminated" /\ flows[f].lpc # "terminated") =>
                flows[f].sends = 1
            /\ flows[f].sends = 1 => flows'[f].lpc \in {"exit", "terminated"}
        /\ flows[f].lpc = "terminated" =>
            /\ flows'[f].lpc = "terminated"
            /\ flows'[f].sends = flows[f].sends
            /\ flows'[f].responded = flows[f].responded]_vars

C10_Witness ==
    \E f \in FlowIds :
        /\ flows[f].responded
        /\ flows[f].sends = 1
        /\ flows[f].lpc = "terminated"
        /\ flows[f].rx = "ok"
        /\ flowSlot = None

\* C11: a request whose path does not begin with /auth/callback is never
\* processed as a callback and sends no result: while the listener holds
\* such a request it is still reading it (404 follows), the flow's state
\* stays installed and its caller keeps waiting or has given up.
C11_NonCallbackPathGets404 ==
    \A f \in FlowIds :
        (flows[f].conn.kind = "request" /\ ~PathBeginsWithCallback(flows[f].conn.path)) =>
            /\ flows[f].lpc = "read"
            /\ ~IsSome(flows[f].cb)
            /\ flows[f].sends = 0
            /\ flowSlot = Some([flow |-> f, state |-> flows[f].state])
            /\ flows[f].rx \in {"waiting", "dropped"}

RouterReturned == rt.pc = "done" /\ rt.result = "ok"
CallsOf(stage) == SelectSeq(plannerCalls, LAMBDA c : c.stage = stage)

\* C12: every decision select_model_for_claude_request returns has a
\* selected_model that is one of the 14 allow-listed ids or the configured
\* fallback model.
C12_SelectionAllowedOrFallback ==
    RouterReturned =>
        \/ rt.decision.selected_model \in ROUTER_ALLOWED_MODELS
        \/ rt.decision.selected_model = rt.config.fallback_model

C12_Witness ==
    /\ RouterReturned
    /\ rt.lite.selected_model = "gpt-4o"
    /\ rt.config.fallback_model = "my-fallback"
    /\ rt.decision.selected_model = "my-fallback"

\* the selection validated from the response the router went by
ValidatedSelection ==
    IF rt.decision.used_pro
    THEN validate_router_model(Unwrap(rt.pro).selected_model, rt.config)
    ELSE validate_router_model(rt.lite.selected_model, rt.config)

\* C13: when the validated selection (of the lite response, or of the pro
\* response if it was adopted) is a Codex model the returned selected_model
\* is the configured fallback model; when it is not, it is returned as it is.
C13_CodexSelectionCoerced ==
    RouterReturned =>
        IF is_codex_model(ValidatedSelection)
        THEN rt.decision.selected_model = rt.config.fallback_model
        ELSE rt.decision.selected_model = ValidatedSelection

C13_Witness ==
    /\ RouterReturned
    /\ ~rt.decision.used_pro
    /\ rt.lite.selected_model = "gpt-5.2-codex"
    /\ ~rt.lite.needs_pro
    /\ rt.config.fallback_model = "gemini-2.5-flash"
    /\ rt.decision.selected_model = "gemini-2.5-flash"

ProEntered == Len(CallsOf("pro")) > 0
ProFailed == ~IsSome(rt.pro) \/ ~Unwrap(rt.pro).json
\* the decision of the lite stage alone
LiteDecision ==
    LET validated == IF TrimModel(rt.lite.selected_model) \in ROUTER_ALLOWED_MODELS
                     THEN TrimModel(rt.lite.selected_model)
                     ELSE rt.config.fallback_model
        lite_calls == CallsOf("lite")
    IN  [selected_model |-> IF is_codex_model(validated)
                            THEN rt.config.fallback_model ELSE validated,
         reason |-> rt.lite.reason,
         task_type |-> rt.lite.task_type,
         used_router_model |-> lite_calls[Len(lite_calls)].model,
         used_pro |-> FALSE]

\* C14: when the pro stage is entered and the pro planner call fails (on
\* the pro model and on its fallback) or its response does not parse, the
\* router still returns a decision, the one of the lite stage alone.
C14_ProFailureDegradesToLite ==
    (rt.pc = "done" /\ ProEntered /\ ProFailed) =>
        /\ rt.result = "ok"
        /\ rt.decision = LiteDecision

C14_Witness ==
    /\ rt.pc = "done"
    /\ Len(CallsOf("pro")) = 2
    /\ Len(CallsOf("lite")) = 2
    /\ IsSome(rt.pro) /\ ~Unwrap(rt.pro).json
    /\ rt.result = "ok"
    /\ rt.decision.used_router_model = rt.config.fallback_model

LiteFirstCallFailed == rt.lite_error # ""
FallbackCalledForLite ==
    /\ Len(CallsOf("lite")) = 2
    /\ CallsOf("lite")[2] =
         [stage |-> "lite", model |-> rt.config.fallback_model,
          prompt |-> CallsOf("lite")[1].prompt]

\* C15 (as stated): when the lite planner is a Codex model and its call
\* fails with a token-unavailable error, the fallback planner is called with
\* the same prompt and, if it answers parseable JSON, a decision is returned
\* whose used_router_model is the fallback model.
C15_LiteFallbackAlways ==
    (is_codex_model(rt.config.pm_lite_model) /\ rt.lite_error = "token unavailable") =>
        /\ FallbackCalledForLite
        /\ (rt.pc = "done" /\ rt.lite.json) =>
            /\ rt.result = "ok"
            /\ rt.decision.used_router_model = rt.config.fallback_model

\* C15 (amended): when the lite planner call fails and the lite model is
\* not the fallback model, the fallback planner is called with the same
\* prompt and, if it answers parseable JSON, a decision with an allowed
\* selection is returned whose used_router_model is the fallback model
\* unless the pro stage was adopted; when the lite model is the fallback
\* model no second call is made and the router returns the error.
C15_LiteFallbackWhenDistinct ==
    LiteFirstCallFailed =>
        IF rt.config.pm_lite_model # rt.config.fallback_model
        THEN /\ FallbackCalledForLite
             /\ (rt.pc = "done" /\ rt.lite.json) =>
                 /\ rt.result = "ok"
                 /\ \/ rt.decision.selected_model \in ROUTER_ALLOWED_MODELS
                    \/ rt.decision.selected_model = rt.config.fallback_model
                 /\ \/ rt.decision.used_pro
                    \/ rt.decision.used_router_model = rt.config.fallback_model
        ELSE /\ Len(plannerCalls) = 1
             /\ rt.pc = "done"
             /\ rt.result = "err"

C15_Witness ==
    /\ rt.pc = "done"
    /\ is_codex_model(rt.config.pm_lite_model)
    /\ rt.lite_error = "token unavailable"
    /\ FallbackCalledForLite
    /\ rt.lite.json
    /\ rt.result = "ok"
    /\ ~rt.decision.used_pro
    /\ rt.decision.used_router_model = rt.config.fallback_model

\* the context contains, case-insensitively, one of the keywords
ContextHasKeyword ==
    \E k \in 1..Len(rt.config.pro_keywords) :
        LET kw == rt.config.pro_keywords[k]
        IN  \E i \in 0..(Len(rt.context) - Len(kw)) :
                \A j \in 1..Len(kw) : LowerChar(rt.context[i + j]) = LowerChar(kw[j])

\* C16: the pro planner is called if and only if the parsed lite response
\* has needs_pro = true or the context contains, case-insensitively, one of
\* the configured pro keywords; with no keyword and needs_pro = false no pro
\* planner call is made.
C16_ProIffNeededOrKeyword ==
    /\ ProEntered => (rt.lite.json /\ (rt.lite.needs_pro \/ ContextHasKeyword))
    /\ (rt.pc = "done" /\ rt.lite.json /\ (rt.lite.needs_pro \/ ContextHasKeyword)) =>
            ProEntered
    /\ (rt.config.pro_keywords = << >> /\ ~rt.lite.needs_pro) => ~ProEntered

C16_Witness ==
    /\ rt.pc = "done"
    /\ ~rt.lite.needs_pro
    /\ rt.context = <<"A", "b">>
    /\ rt.config.pro_keywords = << <<"a", "B">> >>
    /\ ProEntered

\* the account a resolution step has just returned
ResolvedBy(p) == IF p.pc = "inner_active" THEN p.hdr ELSE p.account
PointerNamesAccount(st) ==
    IsSome(st.active_account_id) /\ HasId(st.accounts, Unwrap(st.active_account_id))

\* C17: active-account resolution for a proxy call returns the account the
\* active pointer names when it names an account of the store; otherwise
\* the first account of the list when there is one; otherwise the call
\* fails with 503 and no upstream request is sent.
C17_ProxyResolution ==
    [][/\ (px.pc \in {"outer_active", "inner_active"} /\ px' # px) =>
            IF PointerNamesAccount(accountsFile)
            THEN /\ px'.pc \in {"inner_active", "send1"}
                 /\ ResolvedBy(px') =
                      Some(StoredAccount(Unwrap(accountsFile.active_account_id)))
            ELSE px'.pc \in {"outer_first", "inner_first"}
       /\ (px.pc \in {"outer_first", "inner_first"} /\ px' # px) =>
            IF Len(accountsFile.accounts) > 0
            THEN /\ px'.pc \in {"inner_active", "send1"}
                 /\ ResolvedBy(px') = Some(accountsFile.accounts[1])
            ELSE /\ px'.pc = "done"
                 /\ px'.status = 503
                 /\ upstream' = << >>]_vars

C17_Witness ==
    /\ px.pc = "send1"
    /\ IsSome(accountsFile.active_account_id)
    /\ ~PointerNamesAccount(accountsFile)
    /\ Len(accountsFile.accounts) = 1
    /\ px.account = Some(accountsFile.accounts[1])

\* C18: get-active returns no account if and only if the active pointer is
\* unset or names an id that is not in the account list; otherwise it
\* returns exactly the account whose id equals the pointer.
C18_GetActive ==
    LET st == accountsFile
        r == get_codex_active_account(st)
        ptr == st.active_account_id
    IN  /\ (r = None) <=>
              (~IsSome(ptr) \/ \A i \in 1..Len(st.accounts) : st.accounts[i].id # Unwrap(ptr))
        /\ IsSome(r) =>
              /\ Unwrap(r).id = Unwrap(ptr)
              /\ \E i \in 1..Len(st.accounts) : st.accounts[i] = Unwrap(r)

C18_Witness ==
    /\ px.pc \in {"outer_first", "inner_first"}
    /\ accountsFile.active_account_id = Some(2)
    /\ Len(accountsFile.accounts) = 1
    /\ get_codex_active_account(accountsFile) = None

\* C19: the write of a successful rename(id, n) leaves an account with the
\* same id whose name is n with leading and trailing whitespace trimmed;
\* every other field of that account, every other account and the active
\* pointer are as they were.
C19_RenameStoresTrimmedName ==
    [][\A t \in Tasks :
        (tasks[t].pc = "rename_save" /\ tasks'[t].pc = "done") =>
            LET i == FindIdx(accountsFile.accounts, tasks[t].id)
            IN  /\ tasks'[t].result = "ok"
                /\ accountsFile' =
                     [accountsFile EXCEPT !.accounts[i].name = Trim(tasks[t].name)]]_vars

\* C20: a store operation rejected for a validation reason returns an
\* error and writes nothing: the step in which a command returns an error
\* leaves the accounts file as it was; an add goes on to its write only if
\* the account's email is absent or not in the store it loaded, and remove,
\* rename and activate go on to their write only if the id is in it.
C20_RejectedLeavesStore ==
    [][\A t \in Tasks :
        /\ (tasks[t].pc # "done" /\ tasks'[t].pc = "done" /\ tasks'[t].result = "err") =>
            accountsFile' = accountsFile
        /\ (tasks[t].pc = "idle" /\ tasks'[t].pc = "add_save") =>
            LET account == Unwrap(tasks'[t].acct)
            IN  ~(IsSome(account.email) /\ HasEmail(accountsFile.accounts, account.email))
        /\ (tasks[t].pc # tasks'[t].pc
                /\ tasks'[t].pc \in {"remove_save", "rename_save", "setactive_save"}) =>
            HasId(accountsFile.accounts, tasks'[t].id)]_vars

C20_Witness ==
    \E t, u \in Tasks :
        /\ tasks[t].pc = "done" /\ tasks[t].op = "import" /\ tasks[t].result = "err"
        /\ tasks[t].id # 0
        /\ Len(accountsFile.accounts) = 1
        /\ accountsFile.accounts[1].email = Some("e1")
        /\ tasks[u].pc = "done" /\ tasks[u].op = "rename" /\ tasks[u].result = "err"
\* ---------------------------------------------------------------- C21
InsideWrite(t) == tasks[t].pc = "save_write"

\* C21: a store mutation whose write fails leaves accounts.json with its
\* previous content: once no save is inside its write, the file holds no
\* empty or partial document that a later load would read.
C21_FailedSaveLeavesFile ==
    (\A t \in Tasks : ~InsideWrite(t)) => fileBytes \notin {"empty", "partial"}


\* ---------------------------------------------------------------- C22
\* the step in which thread t calls refresh_codex_account_tokens
CallsRefresh(t) == tasks[t].pc = "idle" /\ tasks'[t].op = "refresh"
IsChatGPTAccountId(id) ==
    \E i \in 1..Len(accountsFile.accounts) :
        /\ accountsFile.accounts[i].id = id
        /\ accountsFile.accounts[i].auth_mode = "chatgpt"

\* C22: a refresh of an api_key account, or of an id that is not in the
\* store, returns an error in the step that loads the store: no request to
\* the issuer is in flight afterwards and accounts.json is not written.
C22_RefreshRejectedBeforeIssuer ==
    [][\A t \in Tasks :
         (CallsRefresh(t) /\ ~IsChatGPTAccountId(tasks'[t].id))
            => /\ tasks'[t].pc = "done"
               /\ tasks'[t].result = "err"
               /\ accountsFile' = accountsFile]_vars

C22_Witness ==
    \E t \in Tasks :
        /\ tasks[t].pc = "done" /\ tasks[t].op = "refresh" /\ tasks[t].result = "err"
        /\ HasId(accountsFile.accounts, tasks[t].id)
        /\ StoredAccount(tasks[t].id).auth_mode = "api_key"

\* ---------------------------------------------------------------- C23
AccountIn(st, id) == st.accounts[FindIdx(st.accounts, id)]
\* the step in which thread t's refresh saves and returns Ok
RefreshSaves(t) ==
    tasks[t].pc = "refresh_await" /\ tasks'[t].pc = "done" /\ tasks'[t].result = "ok"
\* what the ID token of a refresh result yields for email, plan and
\* chatgpt-account-id
YieldedBy(rr) ==
    IF IsSome(rr.id_token) THEN parse_id_token_claims(Unwrap(rr.id_token))
    ELSE <<None, None, None>>

\* C23: a successful refresh of a chatgpt account, run alone, persists the
\* response's access token; the refresh token and the ID token are the
\* response's when it carries them and are otherwise unchanged; email, plan
\* and chatgpt-account-id change only to what the new ID token yields; the
\* account returned is the account persisted.
C23_RefreshPostcondition ==
    [][\A t \in Tasks :
         RefreshSaves(t) =>
            LET before == AccountIn(accountsFile, tasks[t].id)
                after == AccountIn(accountsFile', tasks[t].id)
                rr == tasks'[t].acct[2]
            IN  /\ after.auth_data.access_token = rr.access_token
                /\ after.auth_data.refresh_token =
                      (IF IsSome(rr.refresh_token) THEN Unwrap(rr.refresh_token)
                       ELSE before.auth_data.refresh_token)
                /\ after.auth_data.id_token =
                      (IF IsSome(rr.id_token) THEN Unwrap(rr.id_token)
                       ELSE before.auth_data.id_token)
                /\ after.email # before.email
                      => IsSome(after.email) /\ after.email = YieldedBy(rr)[1]
                /\ after.plan_type # before.plan_type
                      => IsSome(after.plan_type) /\ after.plan_type = YieldedBy(rr)[2]
                /\ after.auth_data.account_id # before.auth_data.account_id
                      => /\ IsSome(after.auth_data.account_id)
                         /\ after.auth_data.account_id = YieldedBy(rr)[3]
                /\ tasks'[t].acct[1] = after]_vars

C23_Witness ==
    \E t \in Tasks :
        /\ tasks[t].pc = "done" /\ tasks[t].op = "refresh" /\ tasks[t].result = "ok"
        /\ tasks[t].acct[2].id_token = Some(JwtE2)
        /\ tasks[t].acct[2].refresh_token = None
        /\ StoredAccount(tasks[t].id).email = Some("e2")
        /\ StoredAccount(tasks[t].id).auth_data.refresh_token = "rt0"

\* ---------------------------------------------------------------- C24
\* the payload a refresh writes from the account it loaded and its result
PayloadWrittenBy(loaded, rr) ==
    ChatGPTData(
        IF IsSome(rr.id_token) THEN Unwrap(rr.id_token) ELSE loaded.auth_data.id_token,
        rr.access_token,
        IF IsSome(rr.refresh_token) THEN Unwrap(rr.refresh_token)
        ELSE loaded.auth_data.refresh_token,
        IF IsSome(YieldedBy(rr)[3]) THEN YieldedBy(rr)[3] ELSE loaded.auth_data.account_id)

ReceiverDropped(f) == flows[f].rx = "dropped"

\* C25: with the result receiver dropped the listener goes on: a valid
\* callback's exchange still adds its account to the store, the send on the
\* dead sink leaves the listener about to return (no error, no panic), and
\* the listener is never held up: from the handling of a callback to its
\* return, and at the top of its loop once the timeout has passed, its next
\* step can be taken.
C25_DroppedReceiverListenerGoesOn ==
    /\ [][\A f \in FlowIds :
            (ReceiverDropped(f) /\ flows[f].lpc = "exchange" /\ flows'[f].result = "ok") =>
                /\ ValidCallback(f)
                /\ Len(accountsFile'.accounts) = Len(accountsFile.accounts) + 1
                /\ accountsFile'.accounts[Len(accountsFile'.accounts)].name = "oauth"]_vars
    /\ [](\A f \in FlowIds :
            ReceiverDropped(f) =>
                /\ flows[f].sends > 0 => flows[f].lpc \in {"exit", "terminated"}
                /\ flows[f].lpc \in {"handle", "exchange", "respond", "send", "exit"}
                      => ENABLED ListenerOwnStep(f)
                /\ (flows[f].lpc = "loop" /\ TimedOut(f)) => ENABLED listener_timeout(f))

C25_Witness ==
    \E f \in FlowIds :
        /\ ReceiverDropped(f)
        /\ flows[f].lpc = "terminated"
        /\ flows[f].responded /\ flows[f].sends = 1
        /\ Len(accountsFile.accounts) = 1
        /\ \A g \in FlowIds \ {f} : flows[g].started = "none"

\* ---------------------------------------------------------------- C26
\* C26: the projection of the account imported from a credential file equals
\* the file in OPENAI_API_KEY and in tokens (last_refresh apart), for every
\* file import accepts; import rejects exactly the files with neither.
C26_ImportProjectRoundTrip ==
    /\ imp.pc = "projected" =>
          /\ Unwrap(imp.projected).openai_api_key = imp.file.openai_api_key
          /\ Unwrap(imp.projected).tokens = imp.file.tokens
    /\ imp.pc = "rejected" =>
          ~IsSome(imp.file.openai_api_key) /\ ~IsSome(imp.file.tokens)
    /\ imp.pc \in {"imported", "projected"} =>
          IsSome(imp.file.openai_api_key) \/ IsSome(imp.file.tokens)

\* ---------------------------------------------------------------- C27
IdSeq(st) == [i \in 1..Len(st.accounts) |-> st.accounts[i].id]
WithoutId(ids, id) == SelectSeq(ids, LAMBDA x : x # id)
\* the step in which thread t writes accounts.json
Writes(t) == tasks'[t] # tasks[t] /\ accountsFile' # accountsFile

\* C27: no two accounts of the store share an id, and no write changes the
\* id of an account: the ids written are the ids the writer loaded, in
\* their order, plus the new account's fresh id for an add or an import and
\* minus the removed id for a remove.
C27_IdsUniqueAndFixed ==
    /\ [](\A i, j \in 1..Len(accountsFile.accounts) :
            accountsFile.accounts[i].id = accountsFile.accounts[j].id => i = j)
    /\ [][\A t \in Tasks :
            Writes(t) =>
               IdSeq(accountsFile') =
                  (CASE tasks[t].pc = "add_save" ->
                            Append(IdSeq(tasks[t].snap), Unwrap(tasks[t].acct).id)
                     [] tasks[t].pc = "remove_save" ->
                            WithoutId(IdSeq(tasks[t].snap), tasks[t].id)
                     [] OTHER -> IdSeq(tasks[t].snap))]_vars

C27_Witness ==
    /\ IdSeq(accountsFile) = <<1, 2>>
    /\ \E t \in Tasks : ReturnedOk(t, "rename") /\ tasks[t].id = 2

\* ---------------------------------------------------------------- C28
\* C28: the save of a refresh of account A leaves, of the store as it was
\* immediately before that save, the accounts and their order, every other
\* account, A's name and last-used time and the active pointer as they
\* were, whatever completed while the refresh awaited the issuer.
C28_RefreshFrame ==
    [][\A t \in Tasks :
         RefreshSaves(t) =>
            /\ IdSeq(accountsFile') = IdSeq(accountsFile)
            /\ accountsFile'.active_account_id = accountsFile.active_account_id
            /\ \A i \in 1..Len(accountsFile.accounts) :
                  IF accountsFile.accounts[i].id = tasks[t].id
                  THEN /\ accountsFile'.accounts[i].name = accountsFile.accounts[i].name
                       /\ accountsFile'.accounts[i].last_used_at =
                             accountsFile.accounts[i].last_used_at
                  ELSE accountsFile'.accounts[i] = accountsFile.accounts[i]]_vars

\* ---------------------------------------------------------------- C29
NoCommandRunning == \A t \in Tasks : tasks[t].pc \in {"idle", "done"}

\* C29: whenever the active pointer names an account of the store and no
\* store command is half-way, auth.json is the projection of that account's
\* stored payload, also after a refresh has rewritten its tokens.
C29_AuthJsonFollowsActive ==
    (/\ NoCommandRunning
     /\ IsSome(accountsFile.active_account_id)
     /\ HasId(accountsFile.accounts, Unwrap(accountsFile.active_account_id)))
        => HoldsProjectionOf(authJson, StoredAccount(Unwrap(accountsFile.active_account_id)))

\* ---------------------------------------------------------------- C30
\* C30: after remove(id) has returned Ok, accounts.json holds no account
\* with that id, whatever the commands running beside it write later.
C30_RemovedStaysRemoved ==
    \A t \in Tasks :
        ReturnedOk(t, "remove") => ~HasId(accountsFile.accounts, tasks[t].id)

\* ---------------------------------------------------------------- C31
\* the step in which the listener of flow f calls send_oauth_result
Sends(f) == flows'[f].sends # flows[f].sends
Delivered(f) == flows[f].rx \notin {"none", "waiting", "cancelled", "dropped"}

\* C31: the flow state a listener's send_oauth_result takes is the one its
\* own start call installed, and the send completes no other flow's
\* receiver.
C31_SendUsesOwnSink ==
    [][\A f \in FlowIds :
         Sends(f) =>
            /\ IsSome(flowSlot) => Unwrap(flowSlot).flow = f
            /\ \A g \in FlowIds \ {f} : flows'[g].rx = flows[g].rx]_vars

C31_Witness ==
    /\ \A f \in {1, 2} :
          /\ flows[f].lpc = "terminated"
          /\ flows[f].sends = 1
          /\ Delivered(f)
    /\ flows[1].rx # flows[2].rx

\* ---------------------------------------------------------------- C32
\* C32: when the send of a flow hands Ok to its receiver, the flow's account
\* is already in accounts.json (one account more than when the callback
\* arrived, the last one being the flow's); when it hands an error, a
\* duplicate-email rejection included, the flow has inserted nothing and
\* the store is as it was when the callback arrived.
C32_OkOnlyAfterInsert ==
    [][\A f \in FlowIds :
         (Sends(f) /\ flows[f].rx = "waiting" /\ flows'[f].rx # "waiting") =>
            IF flows'[f].rx = "ok"
            THEN /\ flows[f].inserted
                 /\ Len(accountsFile.accounts) = Len(flows[f].storeBefore.accounts) + 1
                 /\ accountsFile.accounts[Len(accountsFile.accounts)].name = "oauth"
                 /\ SubSeq(accountsFile.accounts, 1, Len(flows[f].storeBefore.accounts))
                       = flows[f].storeBefore.accounts
            ELSE /\ ~flows[f].inserted
                 /\ IsSome(flows[f].cb) => accountsFile = flows[f].storeBefore]_vars

C32_Witness ==
    \E f, g \in FlowIds :
        /\ flows[f].lpc = "terminated" /\ flows[f].rx = "ok"
        /\ flows[g].lpc = "terminated" /\ flows[g].rx = "err:add"
        /\ Len(accountsFile.accounts) = 1

\* ---------------------------------------------------------------- C33
\* C33: the X-Codex-Account header of a returned response is the id of the
\* account whose credentials went upstream with the request.
C33_HeaderNamesSender ==
    (px.pc = "done" /\ IsSome(px.x_codex_account) /\ Len(upstream) > 0) =>
        /\ IsSome(px.account)
        /\ Unwrap(px.x_codex_account) = Unwrap(px.account).id

\* ---------------------------------------------------------------- C34
\* the call has returned after a refresh that was attempted and failed
RefreshFailed ==
    px.pc = "done" /\ refreshCalls > 0 /\ ~IsSome(px.refreshed)

\* C34: when the refresh attempted after the first response fails, the call
\* returns an error to its caller and has sent one upstream request only.
C34_RefreshErrorSurfaced ==
    RefreshFailed => (px.ret = "Err" /\ Len(upstream) = 1)

\* C34, as the code has it: when the refresh attempted after the first
\* response fails, the call returns Ok with the first upstream response
\* (its 401 or 403 status; the refresh error is dropped) and has sent
\* one upstream request only.
C34_FirstResponseReturned ==
    RefreshFailed =>
        /\ px.ret = "Ok"
        /\ px.status = px.first
        /\ px.status \in {401, 403}
        /\ Len(upstream) = 1

C34_Witness ==
    /\ RefreshFailed
    /\ px.status = 401
    /\ px.ret = "Ok"
    /\ Len(upstream) = 1
    /\ accountsFile.accounts # << >>

\* ---------------------------------------------------------------- C35
StageModel(stage) ==
    IF stage = "lite" THEN rt.config.pm_lite_model ELSE rt.config.pm_pro_model
\* no response of the stage has arrived
NoResponseYet(r, stage) == IF stage = "lite" THEN r.lite = NoResponse ELSE r.pro = None

\* C35: a planner stage makes at most two calls, the first to the stage's
\* configured model and the second to the fallback model; the second is made
\* only when the first call brought no response and the fallback model is
\* another model than the stage's; a request makes at most four calls.
C35_AtMostTwoCallsPerStage ==
    /\ [](\A stage \in {"lite", "pro"} :
            LET calls == CallsOf(stage)
            IN  /\ Len(calls) <= 2
                /\ Len(calls) >= 1 => calls[1].model = StageModel(stage)
                /\ Len(calls) = 2 =>
                      /\ calls[2].model = rt.config.fallback_model
                      /\ rt.config.fallback_model # StageModel(stage)
                      /\ calls[2].prompt = calls[1].prompt)
    /\ [](Len(plannerCalls) <= 4)
    /\ [][\A stage \in {"lite", "pro"} :
            (Len(CallsOf(stage)') = 2 /\ Len(CallsOf(stage)) = 1) =>
                /\ rt.pc = stage \o "_primary"
                /\ rt'.pc = stage \o "_fallback"
                /\ NoResponseYet(rt', stage)]_vars

C35_Witness ==
    /\ RouterReturned
    /\ Len(plannerCalls) = 4
    /\ rt.decision.used_pro

\* ---------------------------------------------------------------- C36
\* C36: no decision returned for a Claude-shape request has a Codex model
\* as its selected_model.
C36_NeverCodexForClaude ==
    RouterReturned => ~is_codex_model(rt.decision.selected_model)

\* ---------------------------------------------------------------- C37
\* the planner response the returned selection was validated from
SupplyingResponse == IF rt.decision.used_pro THEN Unwrap(rt.pro) ELSE rt.lite

\* C37: the reason, the task type and used_router_model of a returned
\* decision are those of the response that supplied the selection: the pro
\* response's, with the model that answered the pro stage, when used_pro is
\* true, and the lite response's with the lite stage's model otherwise.
C37_DecisionFromOneResponse ==
    RouterReturned =>
        /\ rt.decision.reason = SupplyingResponse.reason
        /\ rt.decision.task_type = SupplyingResponse.task_type
        /\ rt.decision.used_router_model =
              (IF rt.decision.used_pro THEN rt.pro_model_used ELSE rt.used_lite_model)

\* ---------------------------------------------------------------- C38
ChatGPTFields == {"type", "id_token", "access_token", "refresh_token", "account_id"}
ApiKeyFields == {"type", "key"}
\* the mode tag of an account and the variant of its payload name the same mode
ModeAgreesWithPayload(a) ==
    /\ a.auth_mode \in {"chatgpt", "api_key"}
    /\ a.auth_mode = "chatgpt" <=>
          (a.auth_data.type = "chatgpt" /\ DOMAIN a.auth_data = ChatGPTFields)
    /\ a.auth_mode = "api_key" <=>
          (a.auth_data.type = "api_key" /\ DOMAIN a.auth_data = ApiKeyFields)

\* C38: in every reachable state of accounts.json every account's mode tag
\* agrees with its payload variant (chatgpt with the three tokens, api_key
\* with the key), and the step in which a refresh saves leaves the mode and
\* the payload variant of every account as they were.
C38_ModeMatchesPayload ==
    /\ [](\A i \in 1..Len(accountsFile.accounts) :
              ModeAgreesWithPayload(accountsFile.accounts[i]))
    /\ [][\A t \in Tasks :
            RefreshSaves(t) =>
                \A i \in 1..Len(accountsFile'.accounts) :
                    LET after == accountsFile'.accounts[i]
                    IN  \A st \in {accountsFile, tasks[t].snap} :
                            HasId(st.accounts, after.id) =>
                                /\ after.auth_mode = AccountIn(st, after.id).auth_mode
                                /\ after.auth_data.type = AccountIn(st, after.id).auth_data.type]_vars

\* a refresh of a chatgpt account has saved and returned Ok in a store that
\* also holds an api_key account
C38_Witness ==
    /\ ReturnedOk("t1", "refresh")
    /\ HasId(accountsFile.accounts, tasks["t1"].id)
    /\ StoredAccount(tasks["t1"].id).auth_mode = "chatgpt"
    /\ StoredAccount(tasks["t1"].id).auth_data.access_token = tasks["t1"].acct[2].access_token
    /\ \E i \in 1..Len(accountsFile.accounts) : accountsFile.accounts[i].auth_mode = "api_key"

\* ---------------------------------------------------------------- C39
\* accounts.json exists and serde_json would not parse its bytes
Unparseable == fileBytes \in {"empty", "partial", "garbage"}
\* the step in which thread t's store operation is called and loads the file
LoadsFile(t) == tasks[t].pc = "idle" /\ tasks'[t].pc # "idle"

\* C39: a store operation (list, get-active, add, remove, activate, touch,
\* rename, refresh) that loads an accounts.json it cannot parse returns an
\* error in that step, holds nothing to save and leaves the file as it is;
\* a file that was unparseable from the start is never written; an absent
\* file is loaded as the empty version-1 store: list, get-active and touch
\* return Ok and add goes on to save a store of exactly the new account.
C39_UnparseableStoreIsAnError ==
    /\ [][\A t \in Tasks :
            LoadsFile(t) =>
                /\ Unparseable =>
                      /\ tasks'[t] = Returned(tasks'[t].op, tasks'[t].id, "err")
                      /\ fileBytes' = fileBytes
                      /\ accountsFile' = accountsFile
                /\ fileBytes = "absent" =>
                      /\ tasks'[t].op \in {"list", "get_active", "touch"} =>
                            tasks'[t] = Returned(tasks'[t].op, tasks'[t].id, "ok")
                      /\ tasks'[t].op = "add" =>
                            /\ tasks'[t].pc = "save_serialize"
                            /\ tasks'[t].snap.version = 1
                            /\ Len(tasks'[t].snap.accounts) = 1
                            /\ tasks'[t].snap.active_account_id = None]_vars
    /\ [][fileBytes = "garbage" => fileBytes' = "garbage"]_vars

\* on an unparseable file a refresh, an add and a third operation have all
\* been called; the first two hold their errors and the file is as it was
C39_Witness ==
    /\ fileBytes = "garbage"
    /\ opsStarted = 3
    /\ tasks["t1"] = Returned("refresh", 1, "err")
    /\ tasks["t2"] = Returned("add", 1, "err")
====
